---- MODULE Spec2Model ----
(***************************************************************************)
(* StatEnv edge gateway (src/src/index.js): the request pipeline of the    *)
(* Worker's fetch handler, its fixed-window rate limiter, the cache        *)
(* gateway and the upstream forwarder, as a state machine.                 *)
(*                                                                         *)
(* Strings the code inspects with startsWith are sequences of chunks, so   *)
(* that "http://localhost:55000" is <<"http://localhost:5500", "0">>, a    *)
(* proper extension of the whitelisted <<"http://localhost:5500">>.        *)
(* The fetch handler is cut at its await points: one action per segment    *)
(* of synchronous code.                                                    *)
(***************************************************************************)
EXTENDS Integers, Sequences, FiniteSets, TLC

(***************************************************************************)
(* Bounds of the model.                                                    *)
(***************************************************************************)
\* RATE_LIMIT.maxRequests is 100 in the source (index.js:11); scaled down.
maxRequests == 2
\* RATE_LIMIT.windowMs is 60000 in the source (index.js:12); scaled down.
windowMs == 1000
\* The clock advances MaxTicks times, by TickMs each time.
TickMs == 1000
MaxTicks == 2
\* The upstream timeout is 10000 ms in the source (index.js:177); scaled down.
timeoutMs == 1000
\* Number of requests of one run of the sequential workload.
MaxArrivals == 3
\* Number of requests of one run of the rate-limiter workload.
MaxRateArrivals == 5
\* Number of requests of the concurrent workload, all in flight at once.
NumConc == 3
\* Length of an answer typed at a prompt of the wizard.
MaxAnswerLen == 3

(***************************************************************************)
(* Values.                                                                 *)
(***************************************************************************)
\* JS undefined / null / a missing header, parameter or field.
Absent == "<absent>"
\* The empty string (falsy, but a value).
Empty == ""

Truthy(v) == v # Absent /\ v # Empty

\* String.prototype.startsWith over chunk sequences.
startsWith(s, prefix) ==
  /\ Len(prefix) <= Len(s)
  /\ SubSeq(s, 1, Len(prefix)) = prefix

\* x || y for chunk-sequence strings ('' is <<>>).
OrElse(s, d) == IF s = <<>> THEN d ELSE s

\* Math.ceil(a / b) for b > 0.
CeilDiv(a, b) == IF a >= 0 THEN (a + b - 1) \div b ELSE -((-a) \div b)

(***************************************************************************)
(* APP_CONFIG.  The entries of the source (myblog.weather,                 *)
(* myblog.analytics, myshop.stripe) and two more shapes that               *)
(* validateConfig accepts: a GET API whose params list names `key`         *)
(* (myblog.search), a GET API without a params list (myblog.status) and a  *)
(* POST API whose bodyFields list names `key` (myblog.track).              *)
(***************************************************************************)
NotConfigured == [set |-> FALSE, list |-> <<>>]
Listed(l) == [set |-> TRUE, list |-> l]

ParamNames == {"q", "key", "admin"}
FieldNames == {"event", "data", "amount", "currency", "key", "admin"}

APP_CONFIG ==
  [ myblog |->
      [ origins |-> << <<"http://localhost:5500">> >>,
        apis |->
          [ weather |->
              [ url |-> "https://api.weatherapi.com/v1/current.json",
                secret |-> "MYBLOG_WEATHER_KEY", method |-> "GET",
                params |-> Listed(<<"q">>), bodyFields |-> NotConfigured,
                cache |-> 300 ],
            analytics |->
              [ url |-> "https://api.example.com/track",
                secret |-> "MYBLOG_ANALYTICS_KEY", method |-> "POST",
                params |-> NotConfigured,
                bodyFields |-> Listed(<<"event", "data">>),
                cache |-> 0 ],
            search |->
              [ url |-> "https://api.example.com/search",
                secret |-> "MYBLOG_WEATHER_KEY", method |-> "GET",
                params |-> Listed(<<"q", "key">>), bodyFields |-> NotConfigured,
                cache |-> 0 ],
            status |->
              [ url |-> "https://api.example.com/status",
                secret |-> "MYBLOG_ANALYTICS_KEY", method |-> "GET",
                params |-> NotConfigured, bodyFields |-> NotConfigured,
                cache |-> 0 ],
            track |->
              [ url |-> "https://api.example.com/track2",
                secret |-> "MYBLOG_ANALYTICS_KEY", method |-> "POST",
                params |-> NotConfigured,
                bodyFields |-> Listed(<<"event", "key">>),
                cache |-> 0 ] ] ],
    myshop |->
      [ origins |-> << <<"https://shop.com">>, <<"http://localhost:8080">> >>,
        apis |->
          [ stripe |->
              [ url |-> "https://api.stripe.com/v1/payment_intents",
                secret |-> "MYSHOP_STRIPE_KEY", method |-> "POST",
                params |-> NotConfigured,
                bodyFields |-> Listed(<<"amount", "currency">>),
                cache |-> 0 ] ] ] ]

\* Names every JS object answers through its prototype chain.
ObjectProtoProps == {"constructor"}

\* What a property inherited from Object.prototype looks like as a config:
\* a function object, every config field undefined.
ProtoValue ==
  [ url |-> Absent, secret |-> Absent, method |-> Absent,
    params |-> NotConfigured, bodyFields |-> NotConfigured, cache |-> 0 ]

\* APP_CONFIG[appName]: "own" (a configured app), "proto" or "undefined".
AppLookup(appName) ==
  IF appName \in DOMAIN APP_CONFIG THEN "own"
  ELSE IF appName \in ObjectProtoProps THEN "proto"
  ELSE "undefined"

\* appConfig.apis[apiName], for a configured app.
ApiLookup(appName, apiName) ==
  IF apiName \in DOMAIN APP_CONFIG[appName].apis THEN "own"
  ELSE IF apiName \in ObjectProtoProps THEN "proto"
  ELSE "undefined"

ApiConfigOf(appName, apiName) ==
  IF apiName \in DOMAIN APP_CONFIG[appName].apis
  THEN APP_CONFIG[appName].apis[apiName]
  ELSE ProtoValue

SecretNames == {"MYBLOG_WEATHER_KEY", "MYBLOG_ANALYTICS_KEY", "MYSHOP_STRIPE_KEY"}

\* RATE_LIMIT.perIP (index.js:13).
perIP == TRUE

(***************************************************************************)
(* Rate limiter: checkRateLimit (index.js:309-366).                        *)
(***************************************************************************)
Identifiers ==
  IF perIP THEN {"203.0.113.1", "unknown"} ELSE DOMAIN APP_CONFIG

NoEntry == [has |-> FALSE, count |-> 0, resetAt |-> 0]

\* Entry with a lost update: the count stays where the window opened it.
EntryStale(c, r) == [has |-> TRUE, count |-> 1, resetAt |-> r]

Entry(c, r) == [has |-> TRUE, count |-> c, resetAt |-> r]

\* WindowExpired that takes the window to be over at its resetAt.
WindowExpiredAtEnd(t, data) == t >= data.resetAt

\* now > v.resetAt (lines 316 and 338).
WindowExpired(t, data) == t > data.resetAt

\* LimitExceeded off by one: the limit itself is not yet exceeding.
LimitExceededLate(data) == data.count > maxRequests

\* data.count >= RATE_LIMIT.maxRequests (line 351).
LimitExceeded(data) == data.count >= maxRequests

\* Cleanup that forgets every entry, expired or not.
CleanupAll(store, t) == [k \in DOMAIN store |-> NoEntry]

\* Cleanup that deletes an entry already at its resetAt.
CleanupAtEnd(store, t) ==
  [k \in DOMAIN store |->
     IF store[k].has /\ t >= store[k].resetAt THEN NoEntry ELSE store[k]]

\* The cleanup loop of lines 314-320, when Math.random() < 0.01.
Cleanup(store, t) ==
  [k \in DOMAIN store |->
     IF store[k].has /\ WindowExpired(t, store[k]) THEN NoEntry ELSE store[k]]

\* OpenWindow that does not count the request that opens the window.
OpenWindowUncounted(t) ==
  [ entry |-> Entry(0, t + windowMs),
    result |-> [allowed |-> TRUE, remaining |-> maxRequests,
                resetAt |-> t + windowMs] ]

\* The entry and the result of a request that opens a window
\* (lines 324-332 and 339-347).
OpenWindow(t) ==
  [ entry |-> Entry(1, t + windowMs),
    result |-> [allowed |-> TRUE, remaining |-> maxRequests - 1,
                resetAt |-> t + windowMs] ]

\* checkRateLimit with one counter shared by all identifiers.
checkRateLimitShared(store, identifier, t, cleanup) ==
  LET st == IF cleanup THEN Cleanup(store, t) ELSE store
      data == st[CHOOSE k \in DOMAIN st : \A j \in DOMAIN st : st[k].count >= st[j].count]
      all(entry) == [k \in DOMAIN st |-> entry]
  IN  IF ~data.has \/ WindowExpired(t, data)
      THEN [ store |-> all(OpenWindow(t).entry), result |-> OpenWindow(t).result ]
      ELSE IF LimitExceeded(data)
      THEN [ store |-> st,
             result |-> [allowed |-> FALSE, remaining |-> 0,
                         resetAt |-> data.resetAt] ]
      ELSE [ store |-> all(Entry(data.count + 1, data.resetAt)),
             result |-> [allowed |-> TRUE,
                         remaining |-> maxRequests - (data.count + 1),
                         resetAt |-> data.resetAt] ]

\* checkRateLimit(identifier) at time t; `cleanup` is the outcome of
\* Math.random() < 0.01.  Yields the new store and the returned object.
checkRateLimit(store, identifier, t, cleanup) ==
  LET st == IF cleanup THEN Cleanup(store, t) ELSE store
      data == st[identifier]
  IN  IF ~data.has \/ WindowExpired(t, data)
      THEN [ store |-> [st EXCEPT ![identifier] = OpenWindow(t).entry],
             result |-> OpenWindow(t).result ]
      ELSE IF LimitExceeded(data)
      THEN [ store |-> st,
             result |-> [allowed |-> FALSE, remaining |-> 0,
                         resetAt |-> data.resetAt] ]
      ELSE [ store |-> [st EXCEPT ![identifier] =
                          Entry(data.count + 1, data.resetAt)],
             result |-> [allowed |-> TRUE,
                         remaining |-> maxRequests - (data.count + 1),
                         resetAt |-> data.resetAt] ]

\* The value of `rateLimit` before checkRateLimit has run.
NoRateLimit == [allowed |-> FALSE, remaining |-> -1, resetAt |-> -1]

(***************************************************************************)
(* Inbound requests.                                                       *)
(***************************************************************************)
\* url.searchParams: every parameter of ParamNames present or Absent.
Query(q, key, admin) == [q |-> q, key |-> key, admin |-> admin]

\* A JSON object body: every field of FieldNames present or Absent.
Obj(event, key, admin) ==
  [ kind |-> "object",
    fields |-> [f \in FieldNames |->
                  CASE f = "event" -> event
                    [] f = "key" -> key
                    [] f = "admin" -> admin
                    [] OTHER -> Absent] ]

\* No body or text that is not JSON: request.json() rejects.
NoBody == [kind |-> "unparseable", fields |-> [f \in FieldNames |-> Absent]]
\* JSON that is not an object: null, a number, a string.
JsonNull == [kind |-> "primitive", fields |-> [f \in FieldNames |-> Absent]]

Req(method, path, origin, referer, ip, query, body) ==
  [ method |-> method, path |-> path, origin |-> origin, referer |-> referer,
    ip |-> ip, query |-> query, body |-> body ]

Local == <<"http://localhost:5500">>
IP1 == "203.0.113.1"
Injected == Query("London", "evil", "1")
Click == Obj("click", "evil", "1")

\* GET /myblog/weather?q=London&key=evil&admin=1 from the whitelisted origin.
BaseGet == Req("GET", <<"myblog", "weather">>, Local, <<>>, IP1, Injected, NoBody)
\* POST /myblog/analytics with a JSON object, from the whitelisted origin.
BasePost ==
  Req("POST", <<"myblog", "analytics">>, Local, <<>>, IP1,
      Query(Absent, Absent, Absent), Click)

\* Preflights and requests that are not routed.
RouteRequests ==
  { [BaseGet EXCEPT !.method = "OPTIONS"],
    [BaseGet EXCEPT !.method = "OPTIONS", !.origin = <<>>],
    [BaseGet EXCEPT !.path = <<"invalid">>],
    [BaseGet EXCEPT !.path = <<>>, !.origin = <<"https://evil.com">>],
    [BaseGet EXCEPT !.path = <<"unknownapp", "weather">>],
    [BaseGet EXCEPT !.path = <<"myblog", "unknownapi">>],
    [BaseGet EXCEPT !.path = <<"constructor", "weather">>],
    [BaseGet EXCEPT !.path = <<"myblog", "constructor">>] }

\* The base request with other Origin and Referer headers.
OriginRequests ==
  { [BaseGet EXCEPT !.origin = <<>>],
    [BaseGet EXCEPT !.origin = <<"https://evil.com">>,
                    !.referer = <<"https://evil.com", "/x">>],
    [BaseGet EXCEPT !.origin = <<"http://localhost:5500", "0">>],
    [BaseGet EXCEPT !.origin = <<>>,
                    !.referer = <<"http://localhost:5500", "/page">>] }

\* Forwarded GET requests.
GetRequests ==
  { BaseGet,
    [BaseGet EXCEPT !.method = "POST", !.body = Click],
    [BaseGet EXCEPT !.path = <<"myblog", "search">>],
    [BaseGet EXCEPT !.path = <<"myblog", "search">>,
                    !.query = Query(Empty, Absent, Absent)],
    [BaseGet EXCEPT !.path = <<"myblog", "status">>] }

\* Forwarded POST requests.
PostRequests ==
  { BasePost,
    [BasePost EXCEPT !.body = NoBody],
    [BasePost EXCEPT !.body = JsonNull],
    [BasePost EXCEPT !.path = <<"myblog", "track">>],
    [BasePost EXCEPT !.path = <<"myshop", "stripe">>,
                     !.origin = <<"https://shop.com">>] }

\* The sequential workload.
Requests == RouteRequests \cup OriginRequests \cup GetRequests \cup PostRequests

\* The rate-limiter workload: an API without cache, two identifiers.
RateRequests ==
  { [BaseGet EXCEPT !.path = <<"myblog", "status">>],
    [BaseGet EXCEPT !.path = <<"myblog", "status">>, !.ip = Absent] }

\* The concurrent workload.
ConcRequests == {BaseGet, BasePost}

(***************************************************************************)
(* Responses.  A header value is a tuple, <<>> when the header is not set. *)
(***************************************************************************)
HeaderNames ==
  { "Content-Type", "Access-Control-Allow-Origin", "Access-Control-Allow-Methods",
    "Access-Control-Allow-Headers", "Access-Control-Max-Age", "Retry-After",
    "X-RateLimit-Limit", "X-RateLimit-Remaining", "X-RateLimit-Reset",
    "X-Cache", "Cache-Control", "X-StatEnv-App", "X-StatEnv-API" }

NoHeaders == [h \in HeaderNames |-> <<>>]

\* headers.set for each header of hs (a function on a subset of HeaderNames).
SetHeaders(headers, hs) ==
  [h \in HeaderNames |-> IF h \in DOMAIN hs THEN hs[h] ELSE headers[h]]

\* A body made by JSON.stringify of an error object.
JsonBody(error, message, extra) ==
  [kind |-> "json", error |-> error, message |-> message, extra |-> extra,
   data |-> Absent]
\* A body passed through from the upstream.
RawBody(data) ==
  [kind |-> "raw", error |-> Absent, message |-> <<>>, extra |-> <<>>,
   data |-> data]
NullBody ==
  [kind |-> "null", error |-> Absent, message |-> <<>>, extra |-> <<>>,
   data |-> Absent]

NoResponse == [status |-> 0, headers |-> NoHeaders, body |-> NullBody]

\* handleCORS allowing every origin instead of echoing the request's.
handleCORSWildcard(req) ==
  [ status |-> 204,
    headers |-> SetHeaders(NoHeaders,
      [h \in {"Access-Control-Allow-Origin", "Access-Control-Allow-Methods",
              "Access-Control-Allow-Headers", "Access-Control-Max-Age"} |->
         CASE h = "Access-Control-Allow-Origin" -> <<"*">>
           [] h = "Access-Control-Allow-Methods" -> <<"GET, POST, OPTIONS">>
           [] h = "Access-Control-Allow-Headers" -> <<"Content-Type">>
           [] OTHER -> <<"86400">>]),
    body |-> NullBody ]

\* handleCORS (index.js:268-280).
handleCORS(req) ==
  [ status |-> 204,
    headers |-> SetHeaders(NoHeaders,
      [h \in {"Access-Control-Allow-Origin", "Access-Control-Allow-Methods",
              "Access-Control-Allow-Headers", "Access-Control-Max-Age"} |->
         CASE h = "Access-Control-Allow-Origin" -> OrElse(req.origin, <<"*">>)
           [] h = "Access-Control-Allow-Methods" -> <<"GET, POST, OPTIONS">>
           [] h = "Access-Control-Allow-Headers" -> <<"Content-Type">>
           [] OTHER -> <<"86400">>]),
    body |-> NullBody ]

\* addCORSHeaders (index.js:285-290).
addCORSHeaders(response, origin) ==
  [ response EXCEPT !.headers = SetHeaders(@,
      [h \in {"Access-Control-Allow-Origin", "Access-Control-Allow-Methods"} |->
         IF h = "Access-Control-Allow-Origin" THEN OrElse(origin, <<"*">>)
         ELSE <<"GET, POST, OPTIONS">>]) ]

\* jsonResponse (index.js:295-303); data is a JsonBody.
jsonResponse(data, status) ==
  [ status |-> status,
    headers |-> SetHeaders(NoHeaders,
      [h \in {"Content-Type", "Access-Control-Allow-Origin"} |->
         IF h = "Content-Type" THEN <<"application/json">> ELSE <<"*">>]),
    body |-> data ]

\* The three rate-limit headers (lines 124-126, 143-145, 219-221).
RateLimitHeaders(remaining, resetAt) ==
  [h \in {"X-RateLimit-Limit", "X-RateLimit-Remaining", "X-RateLimit-Reset"} |->
     CASE h = "X-RateLimit-Limit" -> <<maxRequests>>
       [] h = "X-RateLimit-Remaining" -> <<remaining>>
       [] OTHER -> <<resetAt>>]

\* TooManyRequests with Retry-After left in milliseconds.
TooManyRequestsMillis(req, rateLimit, t) ==
  LET resetIn == rateLimit.resetAt - t
  IN  [ status |-> 429,
        headers |-> SetHeaders(
          SetHeaders(NoHeaders, RateLimitHeaders(0, rateLimit.resetAt)),
          [h \in {"Content-Type", "Retry-After", "Access-Control-Allow-Origin"} |->
             CASE h = "Content-Type" -> <<"application/json">>
               [] h = "Retry-After" -> <<resetIn>>
               [] OTHER -> OrElse(req.origin, <<"*">>)]),
        body |-> JsonBody("Too Many Requests",
                          <<"Rate limit exceeded. Try again in ", resetIn, " seconds.">>,
                          <<"retryAfter", resetIn>>) ]

\* The 429 response of lines 112-129, built at time t.
TooManyRequests(req, rateLimit, t) ==
  LET resetIn == CeilDiv(rateLimit.resetAt - t, 1000)
  IN  [ status |-> 429,
        headers |-> SetHeaders(
          SetHeaders(NoHeaders, RateLimitHeaders(0, rateLimit.resetAt)),
          [h \in {"Content-Type", "Retry-After", "Access-Control-Allow-Origin"} |->
             CASE h = "Content-Type" -> <<"application/json">>
               [] h = "Retry-After" -> <<resetIn>>
               [] OTHER -> OrElse(req.origin, <<"*">>)]),
        body |-> JsonBody("Too Many Requests",
                          <<"Rate limit exceeded. Try again in ", resetIn, " seconds.">>,
                          <<"retryAfter", resetIn>>) ]

\* isAllowed failing open: a request without Origin and Referer passes.
isAllowedOpen(appConfig, origin, referer) ==
  \/ origin = <<>> /\ referer = <<>>
  \/ \E i \in DOMAIN appConfig.origins :
        \/ startsWith(origin, appConfig.origins[i])
        \/ startsWith(referer, appConfig.origins[i])

\* The origin check of lines 95-100.
isAllowed(appConfig, origin, referer) ==
  \E i \in DOMAIN appConfig.origins :
     \/ startsWith(origin, appConfig.origins[i])
     \/ startsWith(referer, appConfig.origins[i])

\* request.headers.get('CF-Connecting-IP') || 'unknown', then the key of
\* line 109.
rateLimitKey(req) ==
  IF perIP THEN (IF Truthy(req.ip) THEN req.ip ELSE "unknown") ELSE req.path[1]

(***************************************************************************)
(* The outbound request.                                                   *)
(***************************************************************************)
NoQuery == [p \in ParamNames |-> Absent]
NoFields == [f \in FieldNames |-> Absent]

\* The loop of lines 167-172 from index i of the params list on.
RECURSIVE CopyParams(_, _, _, _)
CopyParams(acc, list, i, query) ==
  IF i > Len(list) THEN acc
  ELSE CopyParams(
         IF Truthy(query[list[i]]) THEN [acc EXCEPT ![list[i]] = query[list[i]]]
         ELSE acc,
         list, i + 1, query)

\* BuildQuery without the whitelist: every client parameter is passed on.
BuildQueryUnfiltered(apiConfig, query, secretValue) ==
  [p \in ParamNames |-> IF p = "key" THEN secretValue ELSE query[p]]

\* proxyUrl.searchParams after lines 159-173.
BuildQuery(apiConfig, query, secretValue) ==
  IF apiConfig.method = "GET" /\ apiConfig.params.set
  THEN CopyParams([NoQuery EXCEPT !["key"] = secretValue],
                  apiConfig.params.list, 1, query)
  ELSE NoQuery

\* request.json().catch(() => ({})) of line 190: the parsed value.  A GET
\* request carries no body.
ParsedBody(req) ==
  IF req.method = "GET" \/ req.body.kind = "unparseable"
  THEN [kind |-> "object", fields |-> NoFields]
  ELSE req.body

\* `field in clientBody` throws a TypeError when clientBody is not an object
\* (line 195), which happens once the loop runs at all.
BodyThrows(apiConfig, clientBody) ==
  clientBody.kind = "primitive" /\ Len(apiConfig.bodyFields.list) > 0

\* The loop of lines 194-198 from index i of the bodyFields list on.
RECURSIVE CopyFields(_, _, _, _)
CopyFields(acc, list, i, clientBody) ==
  IF i > Len(list) THEN acc
  ELSE CopyFields(
         IF clientBody.fields[list[i]] # Absent
         THEN [acc EXCEPT ![list[i]] = clientBody.fields[list[i]]]
         ELSE acc,
         list, i + 1, clientBody)

\* BuildBody without the whitelist: every client field is passed on.
BuildBodyUnfiltered(apiConfig, clientBody, secretValue) ==
  [clientBody.fields EXCEPT !["key"] = secretValue]

\* allowedBody after lines 191-201.
BuildBody(apiConfig, clientBody, secretValue) ==
  [CopyFields(NoFields, apiConfig.bodyFields.list, 1, clientBody)
     EXCEPT !["key"] = secretValue]

NoOut ==
  [sent |-> FALSE, url |-> Absent, method |-> Absent, query |-> NoQuery,
   hasBody |-> FALSE, body |-> NoFields]

\* The call fetch(proxyUrl.toString(), proxyOptions) of line 207.
Outbound(apiConfig, query, hasBody, body) ==
  [sent |-> TRUE, url |-> apiConfig.url, method |-> apiConfig.method,
   query |-> query, hasBody |-> hasBody, body |-> body]

(***************************************************************************)
(* Upstream replies.                                                       *)
(***************************************************************************)
Replies ==
  { [status |-> 200, ctype |-> "text/json", data |-> "{temp:21}"],
    [status |-> 404, ctype |-> Absent, data |-> "no such city"],
    [status |-> 204, ctype |-> Absent, data |-> Empty] }

NoReply == [status |-> 0, ctype |-> Absent, data |-> Absent]

\* apiResponse.ok taken for true whatever the status.
OkAlways(status) == TRUE

\* apiResponse.ok
Ok(status) == status >= 200 /\ status <= 299

\* new Response(body, {status}) throws for a null-body status given a
\* non-null body.
NullBodyStatus(status) == status \in {101, 204, 205, 304}

(***************************************************************************)
(* The command line tool: config.js (readWorkerConfig, validateConfig) and *)
(* the commands deployCommand and addAppCommand.                           *)
(* A string that may be a URL is a tuple of chunks, <<"https", ":", "//",  *)
(* "myblog.com">> or <<"myblog.com">>.                                     *)
(***************************************************************************)
\* new URL(s) does not throw: s starts with a scheme and a colon.
ValidURL(s) == Len(s) >= 3 /\ s[2] = ":"

\* The regular expression /(\w+):/ of line 78 matches inside the string.
WordColon(s) == \E i \in 2 .. Len(s) : s[i] = ":"

\* The regular expression /\/\/.*$/ of line 72 matches inside the string.
LineComment(s) == \E i \in 1 .. Len(s) : s[i] = "//"

NoCache == [set |-> FALSE, value |-> 0]
Cache(n) == [set |-> TRUE, value |-> n]

\* The origins of an app: an array of strings, or no array.
NoOrigins == [array |-> FALSE, items |-> <<>>]
Origins(items) == [array |-> TRUE, items |-> items]

UrlTexts == { <<"https", ":", "//", "api.example.com">>, <<"api.example.com">> }

\* The object that the APP_CONFIG literal of a worker file denotes: one app
\* with one API.  url is a string, empty when there is none; secret and
\* method are words or Absent.
WorkerConfigs ==
  { [ myblog |->
        [ origins |-> o,
          apis |-> [ weather |-> [url |-> u, secret |-> k, method |-> m,
                                   cache |-> c] ] ] ] :
      o \in {NoOrigins, Origins(<<>>)} \cup { Origins(<<t>>) : t \in UrlTexts },
      u \in {<<>>} \cup UrlTexts,
      k \in {Absent, "MYBLOG_WEATHER_KEY"},
      m \in {Absent, "GET", "TRACE"},
      c \in {NoCache, Cache(300), Cache(-1)} }

\* src/index.js as the tool finds it: present or not, with or without a
\* `const APP_CONFIG = {...};`, the object the literal denotes, and whether
\* the literal is free of trailing commas and other syntax that JSON lacks.
WorkerFiles ==
  [ exists : BOOLEAN, declared : BOOLEAN, config : WorkerConfigs,
    strictJson : BOOLEAN ]

\* The strings of a config.
ConfigStrings(config) ==
  UNION { { config[a].origins.items[i] : i \in DOMAIN config[a].origins.items }
          \cup { config[a].apis[n].url : n \in DOMAIN config[a].apis }
          : a \in DOMAIN config }

\* Lines 72-80 of config.js: comments are cut out, quotes replaced, every
\* word before a colon quoted; JSON.parse accepts the outcome.
JsonLikeParses(file) ==
  /\ file.strictJson
  /\ \A str \in ConfigStrings(file.config) : ~WordColon(str) /\ ~LineComment(str)

NullConfig == [kind |-> "null", config |-> <<>>]

\* readWorkerConfig (config.js:50-88): null, { raw, parsed: false } or the
\* parsed object.
readWorkerConfig(file) ==
  IF ~file.exists \/ ~file.declared THEN NullConfig
  ELSE IF JsonLikeParses(file) THEN [kind |-> "parsed", config |-> file.config]
  ELSE [kind |-> "raw", config |-> <<>>]

\* The errors validateConfig finds in one API (config.js:136-187); the
\* names of the workload match the name patterns.
ApiErrors(apiConfig) ==
  (IF apiConfig.url = <<>> THEN {"url is required"}
   ELSE IF ~ValidURL(apiConfig.url) THEN {"invalid URL"} ELSE {})
  \cup (IF apiConfig.secret = Absent THEN {"secret is required"} ELSE {})
  \cup (IF apiConfig.method # Absent
           /\ apiConfig.method \notin {"GET", "POST", "PUT", "DELETE", "PATCH"}
        THEN {"invalid method"} ELSE {})
  \cup (IF apiConfig.cache.set /\ apiConfig.cache.value < 0
        THEN {"cache must be a positive number"} ELSE {})

\* The errors validateConfig finds in one app (config.js:103-134).
AppErrors(appConfig) ==
  (IF ~appConfig.origins.array THEN {"origins must be an array"}
   ELSE IF Len(appConfig.origins.items) = 0
   THEN {"at least one origin is required"}
   ELSE IF \E i \in DOMAIN appConfig.origins.items :
             ~ValidURL(appConfig.origins.items[i])
   THEN {"invalid origin URL"} ELSE {})
  \cup UNION { ApiErrors(appConfig.apis[n]) : n \in DOMAIN appConfig.apis }

\* validateConfig (config.js:93-195), without the warnings.
validateConfig(config) ==
  LET errors == UNION { AppErrors(config[a]) : a \in DOMAIN config }
  IN  [valid |-> errors = {}, errors |-> errors]

NoResult == [made |-> FALSE, valid |-> FALSE]

\* One run of deployCommand: where it is, its file and flag, the result of
\* validateConfig if it was called, and whether `wrangler deploy` was run.
NoDeploy ==
  [ pc |-> "idle", file |-> Absent, dryRun |-> FALSE, result |-> NoResult,
    deployed |-> FALSE ]

\* Digits and other characters of an answer typed at a prompt.
Digits == {"0", "3", "6"}
Chars == Digits \cup {"a", "-", " "}
DigitValue(c) == CASE c = "0" -> 0 [] c = "3" -> 3 [] OTHER -> 6

RECURSIVE TrimStart(_)
TrimStart(str) ==
  IF str # <<>> /\ Head(str) = " " THEN TrimStart(Tail(str)) ELSE str

\* The value of the longest prefix of digits of str, continuing acc; any is
\* whether a digit was read.
RECURSIVE ReadDigits(_, _, _)
ReadDigits(str, acc, any) ==
  IF str # <<>> /\ Head(str) \in Digits
  THEN ReadDigits(Tail(str), 10 * acc + DigitValue(Head(str)), TRUE)
  ELSE [nan |-> ~any, value |-> acc]

\* parseInt(str): leading blanks skipped, a sign, the digits up to the
\* first other character; NaN without a digit.
parseInt(str) ==
  LET t == TrimStart(str)
      neg == t # <<>> /\ Head(t) = "-"
      r == ReadDigits(IF neg THEN Tail(t) ELSE t, 0, FALSE)
  IN  IF r.nan THEN r ELSE [nan |-> FALSE, value |-> IF neg THEN -r.value ELSE r.value]

\* parseInt(cache) || 300 (statenv.js:204).
CacheDuration(cache) ==
  IF parseInt(cache).nan \/ parseInt(cache).value = 0 THEN 300
  ELSE parseInt(cache).value

\* Lines 206-223 of addAppCommand: the API config built from the answers.
BuildApi(httpMethod, cacheDuration) ==
  [ method |-> httpMethod,
    cache |-> IF cacheDuration > 0 THEN Cache(cacheDuration) ELSE NoCache ]

NoApi == [method |-> Absent, cache |-> NoCache]

\* One pass of the wizard's loop from the cache prompt on: the method
\* chosen before, the answer typed, the API config built.
NoWizard == [pc |-> "idle", httpMethod |-> Absent, answer |-> <<>>, api |-> NoApi]

(***************************************************************************)
(* State.                                                                  *)
(***************************************************************************)
VARIABLES
  now,            \* Date.now()
  rateLimitStore, \* the module-level Map of index.js:19
  cache,          \* caches.default: a set of [key, resp, resp2, reply], one per key
  pendingPuts,    \* cache.put calls handed to ctx.waitUntil, not yet settled
  env,            \* the secret store: secret name -> value or Absent
  slots,          \* the invocations of fetch(request, env, ctx)
  hWin,           \* history: per identifier, the window its checks fall in
  arrivals,       \* history: the number of requests so far
  deploy,         \* a run of `statenv deploy`
  wizard,         \* a run of `statenv add-app` at the cache prompt
  checkLog        \* history: per identifier, the direct calls of checkRateLimit

vars ==
  <<now, rateLimitStore, cache, pendingPuts, env, slots, hWin, arrivals,
    deploy, wizard, checkLog>>

SecretValue == "sk-live-1"
\* The secret of the second run of a pair of runs that differ in the
\* secret's value only.
TwinSecret(v) == IF Truthy(v) THEN "sk-live-2" ELSE v

\* The secret stores: every secret set, or none (a request reads one secret).
SecretStores ==
  {[n \in SecretNames |-> SecretValue], [n \in SecretNames |-> Absent]}

NoRequest ==
  [ method |-> Absent, path |-> <<>>, origin |-> <<>>, referer |-> <<>>,
    ip |-> Absent, query |-> NoQuery, body |-> NoBody ]

\* The locals of one invocation of fetch.  rlBefore, rlAfter, rlN and
\* rlPrevN are history: the identifier's entry before and after the
\* rate-limit check of this invocation, the check's number in the
\* identifier's window and the number of checks the identifier had made in
\* its window before.  resp2 is the response of the twin run (the same run
\* with TwinSecret).  hit and cause are history too: the cache entry that
\* cache.match resolved to, and why the upstream call failed ("timeout": the
\* abort of line 177; "error": fetch or text() rejected; "construct": new
\* Response of line 212 threw; "cache": cache.match rejected; "body": line
\* 195 threw; "lookup": line 86 threw).  calls counts the executions of
\* line 207.
NoKey == [path |-> <<>>, query |-> NoQuery]
NoHit == [found |-> FALSE, key |-> NoKey, resp |-> NoResponse, reply |-> NoReply]

IdleSlot ==
  [ pc |-> "idle", req |-> NoRequest, stages |-> <<>>,
    rateLimit |-> NoRateLimit, at |-> -1,
    rlBefore |-> NoEntry, rlAfter |-> NoEntry, rlN |-> 0, rlPrevN |-> 0,
    secretValue |-> Absent, out |-> NoOut, aborted |-> FALSE, deadline |-> -1,
    reply |-> NoReply, resp |-> NoResponse, resp2 |-> NoResponse,
    hit |-> NoHit, cause |-> "none", calls |-> 0 ]

Slots == 1 .. NumConc

appNameOf(L) == L.req.path[1]
apiNameOf(L) == L.req.path[2]
apiConfigOf(L) == ApiConfigOf(appNameOf(L), apiNameOf(L))

\* cacheKey made of the path and the forwarded parameter only.
cacheKeyForwarded(req) ==
  [path |-> req.path, query |-> [req.query EXCEPT !.key = Absent, !.admin = Absent]]

\* new Request(request.url, request): the cache key.
cacheKey(req) == [path |-> req.path, query |-> req.query]

Stage(L, name) == [L EXCEPT !.stages = Append(@, name)]

\* A return before the secret is read: both runs of a pair are one run.
Return(L, resp) == [L EXCEPT !.pc = "done", !.resp = resp, !.resp2 = resp]

\* The twin run's locals: whatever was computed from the secret is computed
\* from the twin secret.
Twin(L) ==
  LET s2 == TwinSecret(L.secretValue)
      api == apiConfigOf(L)
  IN  [ L EXCEPT
          !.secretValue = s2,
          !.out = IF L.out.url = Absent THEN L.out
                  ELSE [ L.out EXCEPT
                           !.query = BuildQuery(api, L.req.query, s2),
                           !.body = IF L.out.hasBody
                                    THEN BuildBody(api, ParsedBody(L.req), s2)
                                    ELSE NoFields ] ]

(***************************************************************************)
(* The segments of fetch (index.js:56-262).                                *)
(***************************************************************************)
\* MissResponse that echoes the credential in a response header.
MissResponseEcho(L, reply) ==
  [ status |-> reply.status,
    headers |-> SetHeaders(NoHeaders,
                  [h \in {"X-StatEnv-API"} |-> <<L.secretValue>>]),
    body |-> RawBody(reply.data) ]

\* Lines 211-224: the response made from the upstream reply.
MissResponse(L, reply) ==
  LET api == apiConfigOf(L)
  IN  [ status |-> reply.status,
        headers |-> SetHeaders(
          SetHeaders(NoHeaders,
                     RateLimitHeaders(L.rateLimit.remaining, L.rateLimit.resetAt)),
          [h \in {"Content-Type", "Cache-Control", "X-StatEnv-App",
                  "X-StatEnv-API", "X-Cache"} |->
             CASE h = "Content-Type" ->
                    <<IF Truthy(reply.ctype) THEN reply.ctype ELSE "application/json">>
               [] h = "Cache-Control" ->
                    IF api.cache # 0 THEN <<"public, max-age=", api.cache>>
                    ELSE <<"no-cache">>
               [] h = "X-StatEnv-App" -> <<appNameOf(L)>>
               [] h = "X-StatEnv-API" -> <<apiNameOf(L)>>
               [] OTHER -> <<"MISS">>]),
        body |-> RawBody(reply.data) ]

\* HitResponse that keeps the rate-limit headers stored with the entry.
HitResponseStale(L, cachedResponse) ==
  addCORSHeaders(
    [ cachedResponse EXCEPT !.headers =
        SetHeaders(@, [h \in {"X-Cache"} |-> <<"HIT">>]) ],
    L.req.origin)

\* HitResponse that leaves X-Cache as it was stored.
HitResponseUnmarked(L, cachedResponse) ==
  addCORSHeaders(
    [ cachedResponse EXCEPT !.headers = SetHeaders(@,
        RateLimitHeaders(L.rateLimit.remaining, L.rateLimit.resetAt)) ],
    L.req.origin)

\* Lines 141-146: the response made from a cached response.
HitResponse(L, cachedResponse) ==
  addCORSHeaders(
    [ cachedResponse EXCEPT !.headers = SetHeaders(
        SetHeaders(@, RateLimitHeaders(L.rateLimit.remaining, L.rateLimit.resetAt)),
        [h \in {"X-Cache"} |-> <<"HIT">>]) ],
    L.req.origin)

\* FetchFailed that does not tell the abort from other errors.
FetchFailedGeneric(L, errorName) ==
  jsonResponse(JsonBody("Bad Gateway",
                        <<"Failed to reach external API">>, <<>>), 502)

\* The catch of lines 235-253, for an error of the given name.
FetchFailed(L, errorName) ==
  IF errorName = "AbortError"
  THEN jsonResponse(JsonBody("Gateway Timeout",
                             <<"External API took too long to respond">>, <<>>), 504)
  ELSE jsonResponse(JsonBody("Bad Gateway",
                             <<"Failed to reach external API">>, <<>>), 502)

\* WorkerError without the catch: the exception leaves fetch, no response.
WorkerErrorEscapes(L, message) == NoResponse

\* The catch of lines 255-261, for an error with the given message.
WorkerError(L, message) ==
  jsonResponse(JsonBody("Internal server error", <<message>>, <<>>), 500)

\* A return after the secret was read.
ReturnTwin(L, resp, resp2) ==
  [L EXCEPT !.pc = "done", !.resp = resp, !.resp2 = resp2]

\* AfterCache without the test of line 153: the call is made with whatever
\* the secret store gave.
AfterCacheUnguarded(L, e, t) ==
  LET api == apiConfigOf(L)
      secretValue == IF api.secret = Absent THEN Absent ELSE e[api.secret]
      L1 == [Stage(L, "secret") EXCEPT !.secretValue = secretValue]
      L2 == [Stage(L1, "forward") EXCEPT !.deadline = t + timeoutMs]
  IN  IF api.method = "POST" /\ api.bodyFields.set
      THEN [L2 EXCEPT !.pc = "bodyRead"]
      ELSE [L2 EXCEPT !.pc = "fetch",
                      !.out = Outbound(api, BuildQuery(api, L.req.query, secretValue),
                                       FALSE, NoFields)]

\* Lines 151-186 and, without a body to read, the call of line 207.
AfterCache(L, e, t) ==
  LET api == apiConfigOf(L)
      secretValue == IF api.secret = Absent THEN Absent ELSE e[api.secret]
      L1 == [Stage(L, "secret") EXCEPT !.secretValue = secretValue]
      L2 == [Stage(L1, "forward") EXCEPT !.deadline = t + timeoutMs]
  IN  IF ~Truthy(secretValue)
      THEN Return(L1, jsonResponse(JsonBody("Configuration error", <<>>, <<>>), 500))
      ELSE IF api.method = "POST" /\ api.bodyFields.set
      THEN [L2 EXCEPT !.pc = "bodyRead"]
      ELSE [L2 EXCEPT !.pc = "fetch", !.calls = @ + 1,
                      !.out = Outbound(api, BuildQuery(api, L.req.query, secretValue),
                                       FALSE, NoFields)]

\* Admit that goes to the cache and the upstream without the rate-limit
\* check.
AdmitUnlimited(L, store, e, t, cleanup) ==
  [ store |-> store,
    slot |-> IF apiConfigOf(L).cache # 0
             THEN [Stage(L, "cacheLookup") EXCEPT !.pc = "cacheMatch"]
             ELSE AfterCache(L, e, t) ]

\* Admit that counts the request but consults the cache before refusing it.
AdmitCacheBeforeLimit(L, store, e, t, cleanup) ==
  LET id == rateLimitKey(L.req)
      rl == checkRateLimit(store, id, t, cleanup)
      L1 == [Stage(L, "rateLimit") EXCEPT
               !.rateLimit = rl.result, !.at = t,
               !.rlBefore = store[id], !.rlAfter = rl.store[id]]
  IN  [ store |-> rl.store,
        slot |->
          IF apiConfigOf(L).cache # 0
          THEN [Stage(L1, "cacheLookup") EXCEPT !.pc = "cacheMatch"]
          ELSE IF ~rl.result.allowed
          THEN Return(L1, TooManyRequests(L.req, rl.result, t))
          ELSE AfterCache(L1, e, t) ]

\* Lines 107-149 up to the first await, for a routed request of an allowed
\* origin: the rate-limit check, then the cache lookup or what follows it.
\* Yields the locals and the new store.
Admit(L, store, e, t, cleanup) ==
  LET id == rateLimitKey(L.req)
      rl == checkRateLimit(store, id, t, cleanup)
      L1 == [Stage(L, "rateLimit") EXCEPT
               !.rateLimit = rl.result, !.at = t,
               !.rlBefore = store[id], !.rlAfter = rl.store[id]]
  IN  [ store |-> rl.store,
        slot |->
          IF ~rl.result.allowed
          THEN Return(L1, TooManyRequests(L.req, rl.result, t))
          ELSE IF apiConfigOf(L).cache # 0
          THEN [Stage(L1, "cacheLookup") EXCEPT !.pc = "cacheMatch"]
          ELSE AfterCache(L1, e, t) ]

\* InvalidRoute rejecting only the empty path.
InvalidRouteEmptyOnly(pathParts) == Len(pathParts) < 1

\* The test of line 67 on pathParts (the non-empty segments of the path).
InvalidRoute(pathParts) == Len(pathParts) < 2

\* Lines 57-105: preflight, route, app, API and origin.  Yields the locals
\* and the new store.
Begin(req, store, e, t, cleanup) ==
  LET L0 == [IdleSlot EXCEPT !.req = req]
      Lr == Stage(L0, "route")
      La == Stage(Lr, "app")
      Li == Stage(La, "api")
      Lo == Stage(Li, "origin")
      keep(L) == [store |-> store, slot |-> L]
  IN  IF req.method = "OPTIONS" THEN keep(Return(L0, handleCORS(req)))
      ELSE IF InvalidRoute(req.path)
      THEN keep(Return(Lr, jsonResponse(
             JsonBody("Invalid route. Use /{appName}/{apiName}", <<>>,
                      <<"example", "/myblog/weather?q=London">>), 404)))
      ELSE IF AppLookup(req.path[1]) = "undefined"
      THEN keep(Return(La, jsonResponse(
             JsonBody("Unknown app", <<>>, <<"availableApps", DOMAIN APP_CONFIG>>),
             404)))
      ELSE IF AppLookup(req.path[1]) = "proto"
      \* appConfig.apis is undefined: line 86 throws a TypeError
      THEN keep(Return([Li EXCEPT !.cause = "lookup"],
                       WorkerError(Li, "Cannot read properties of undefined")))
      ELSE IF ApiLookup(req.path[1], req.path[2]) = "undefined"
      THEN keep(Return(Li, jsonResponse(
             JsonBody("Unknown API endpoint", <<>>,
                      <<"availableApis", DOMAIN APP_CONFIG[req.path[1]].apis>>),
             404)))
      ELSE IF ~isAllowed(APP_CONFIG[req.path[1]], req.origin, req.referer)
      THEN keep(Return(Lo, jsonResponse(JsonBody("Forbidden", <<>>, <<>>), 403)))
      ELSE Admit(Lo, store, e, t, cleanup)


(***************************************************************************)
(* History of the rate-limit checks: the fixed window each identifier's    *)
(* checks fall in, kept apart from the store, and the number of checks in  *)
(* it (counted up to maxRequests + 1).                                     *)
(***************************************************************************)
NoWindow == [open |-> FALSE, resetAt |-> 0, n |-> 0]

HistCheck(h, id, t) ==
  IF ~h[id].open \/ t > h[id].resetAt
  THEN [h EXCEPT ![id] = [open |-> TRUE, resetAt |-> t + windowMs, n |-> 1]]
  ELSE [h EXCEPT ![id].n = IF @ > maxRequests THEN @ ELSE @ + 1]

Checked(L) == L.at >= 0

(***************************************************************************)
(* Actions.                                                                *)
(***************************************************************************)
Init ==
  /\ now = 0
  /\ rateLimitStore = [id \in Identifiers |-> NoEntry]
  /\ cache = {}
  /\ pendingPuts = {}
  /\ env \in SecretStores
  /\ slots = [s \in Slots |-> IdleSlot]
  /\ hWin = [id \in Identifiers |-> NoWindow]
  /\ arrivals = 0
  /\ deploy = NoDeploy
  /\ wizard = NoWizard
  /\ checkLog = [id \in Identifiers |-> <<>>]

\* A request arrives and runs to its first await or to its response.
Arrive(s, req, cleanup) ==
  /\ slots[s].pc = "idle"
  /\ LET b == Begin(req, rateLimitStore, env, now, cleanup)
         id == rateLimitKey(req)
         h == IF Checked(b.slot) THEN HistCheck(hWin, id, now) ELSE hWin
     IN  /\ rateLimitStore' = b.store
         /\ hWin' = h
         /\ slots' = [slots EXCEPT ![s] =
                        IF Checked(b.slot)
                        THEN [b.slot EXCEPT !.rlN = h[id].n, !.rlPrevN = hWin[id].n]
                        ELSE b.slot]
  /\ arrivals' = arrivals + 1
  /\ UNCHANGED <<now, cache, pendingPuts, env, deploy, wizard, checkLog>>

CacheEntries(key) == {c \in cache : c.key = key}

\* CacheHit that reads the secret and calls the upstream all the same.
CacheHitRevalidate(s) ==
  /\ slots[s].pc = "cacheMatch"
  /\ slots[s].req.method = "GET"
  /\ \E c \in CacheEntries(cacheKey(slots[s].req)) :
       slots' = [slots EXCEPT ![s] =
                   [ ReturnTwin(Stage(@, "assemble"), HitResponse(@, c.resp),
                                HitResponse(@, c.resp2))
                       EXCEPT !.hit = [found |-> TRUE, key |-> c.key,
                                       resp |-> c.resp, reply |-> c.reply],
                              !.secretValue = env[apiConfigOf(slots[s]).secret],
                              !.calls = @ + 1,
                              !.out = Outbound(apiConfigOf(slots[s]), NoQuery,
                                               FALSE, NoFields) ]]
  /\ UNCHANGED <<now, rateLimitStore, cache, pendingPuts, env,
                 deploy, wizard, checkLog, hWin, arrivals>>

\* cache.match(cacheKey) of line 136 resolves to a response.
CacheHit(s) ==
  /\ slots[s].pc = "cacheMatch"
  /\ slots[s].req.method = "GET"
  /\ \E c \in CacheEntries(cacheKey(slots[s].req)) :
       slots' = [slots EXCEPT ![s] =
                   [ ReturnTwin(Stage(@, "assemble"), HitResponse(@, c.resp),
                                HitResponse(@, c.resp2))
                       EXCEPT !.hit = [found |-> TRUE, key |-> c.key,
                                       resp |-> c.resp, reply |-> c.reply] ]]
  /\ UNCHANGED <<now, rateLimitStore, cache, pendingPuts, env,
                 deploy, wizard, checkLog, hWin, arrivals>>

\* cache.match(cacheKey) resolves to undefined: lines 148-186 run.
CacheMiss(s) ==
  /\ slots[s].pc = "cacheMatch"
  /\ slots[s].req.method # "GET" \/ CacheEntries(cacheKey(slots[s].req)) = {}
  /\ slots' = [slots EXCEPT ![s] = AfterCache(@, env, now)]
  /\ UNCHANGED <<now, rateLimitStore, cache, pendingPuts, env,
                 deploy, wizard, checkLog, hWin, arrivals>>

\* cache.match(cacheKey) rejects: the catch of line 255 answers.
CacheMatchFail(s) ==
  /\ slots[s].pc = "cacheMatch"
  /\ slots' = [slots EXCEPT ![s] =
       Return([@ EXCEPT !.cause = "cache"], WorkerError(@, "cache failure"))]
  /\ UNCHANGED <<now, rateLimitStore, cache, pendingPuts, env,
                 deploy, wizard, checkLog, hWin, arrivals>>

\* request.json() of line 190 settles; lines 191-203 and the call of line
\* 207 run.  With the signal already aborted the call rejects at once.
BodyRead(s) ==
  /\ slots[s].pc = "bodyRead"
  /\ LET L == slots[s]
         api == apiConfigOf(L)
         clientBody == ParsedBody(L.req)
         sent == [L EXCEPT
                    !.pc = "fetch", !.calls = @ + 1,
                    !.out = Outbound(api, BuildQuery(api, L.req.query, L.secretValue),
                                     TRUE, BuildBody(api, clientBody, L.secretValue))]
     IN  slots' = [slots EXCEPT ![s] =
           IF BodyThrows(api, clientBody)
           THEN ReturnTwin([L EXCEPT !.cause = "body"],
                           WorkerError(L, "Cannot use 'in' operator"),
                           WorkerError(Twin(L), "Cannot use 'in' operator"))
           ELSE IF L.aborted
           THEN ReturnTwin([L EXCEPT !.cause = "timeout"],
                           FetchFailed(L, "AbortError"),
                           FetchFailed(Twin(L), "AbortError"))
           ELSE sent]
  /\ UNCHANGED <<now, rateLimitStore, cache, pendingPuts, env,
                 deploy, wizard, checkLog, hWin, arrivals>>

\* The timer of line 177 fires while the body is being read.
TimerFire(s) ==
  /\ slots[s].pc = "bodyRead"
  /\ ~slots[s].aborted
  /\ now >= slots[s].deadline
  /\ slots' = [slots EXCEPT ![s].aborted = TRUE]
  /\ UNCHANGED <<now, rateLimitStore, cache, pendingPuts, env,
                 deploy, wizard, checkLog, hWin, arrivals>>

\* The timer of line 177 fires while fetch is pending: AbortError.
FetchTimeout(s) ==
  /\ slots[s].pc = "fetch"
  /\ now >= slots[s].deadline
  /\ slots' = [slots EXCEPT ![s] =
       ReturnTwin([@ EXCEPT !.aborted = TRUE, !.cause = "timeout"],
                  FetchFailed(@, "AbortError"),
                  FetchFailed(Twin(@), "AbortError"))]
  /\ UNCHANGED <<now, rateLimitStore, cache, pendingPuts, env,
                 deploy, wizard, checkLog, hWin, arrivals>>

\* FetchError that calls the upstream a second time before giving up.
FetchErrorRetry(s) ==
  /\ slots[s].pc = "fetch"
  /\ slots' = [slots EXCEPT ![s] =
       IF @.calls < 2
       THEN [@ EXCEPT !.calls = @ + 1]
       ELSE ReturnTwin([@ EXCEPT !.cause = "error"], FetchFailed(@, "TypeError"),
                       FetchFailed(Twin(@), "TypeError"))]
  /\ UNCHANGED <<now, rateLimitStore, cache, pendingPuts, env,
                 deploy, wizard, checkLog, hWin, arrivals>>

\* fetch rejects for another reason (line 207).
FetchError(s) ==
  /\ slots[s].pc = "fetch"
  /\ slots' = [slots EXCEPT ![s] =
       ReturnTwin([@ EXCEPT !.cause = "error"], FetchFailed(@, "TypeError"),
                  FetchFailed(Twin(@), "TypeError"))]
  /\ UNCHANGED <<now, rateLimitStore, cache, pendingPuts, env,
                 deploy, wizard, checkLog, hWin, arrivals>>

\* fetch resolves with the upstream's status and headers; line 208 clears
\* the timer.
FetchReply(s, reply) ==
  /\ slots[s].pc = "fetch"
  /\ slots' = [slots EXCEPT ![s] = [@ EXCEPT !.pc = "text", !.reply = reply,
                                              !.deadline = -1]]
  /\ UNCHANGED <<now, rateLimitStore, cache, pendingPuts, env,
                 deploy, wizard, checkLog, hWin, arrivals>>

\* apiResponse.text() of line 209 rejects.
TextError(s) ==
  /\ slots[s].pc = "text"
  /\ slots' = [slots EXCEPT ![s] =
       ReturnTwin([@ EXCEPT !.cause = "error"], FetchFailed(@, "TypeError"),
                  FetchFailed(Twin(@), "TypeError"))]
  /\ UNCHANGED <<now, rateLimitStore, cache, pendingPuts, env,
                 deploy, wizard, checkLog, hWin, arrivals>>

\* apiResponse.text() resolves; lines 211-234 run.
TextDone(s) ==
  /\ slots[s].pc = "text"
  /\ LET L == slots[s]
         api == apiConfigOf(L)
         response == MissResponse(L, L.reply)
         store == api.cache # 0 /\ Ok(L.reply.status)
         L1 == IF store THEN Stage(L, "cacheStore") ELSE L
     IN  IF NullBodyStatus(L.reply.status)
         \* new Response throws inside the try of line 206
         THEN /\ slots' = [slots EXCEPT ![s] =
                   ReturnTwin([L EXCEPT !.cause = "construct"],
                              FetchFailed(L, "TypeError"),
                              FetchFailed(Twin(L), "TypeError"))]
              /\ UNCHANGED pendingPuts
         ELSE /\ slots' = [slots EXCEPT ![s] =
                   ReturnTwin(Stage(L1, "assemble"),
                              addCORSHeaders(response, L.req.origin),
                              addCORSHeaders(MissResponse(Twin(L), L.reply),
                                             L.req.origin))]
              /\ pendingPuts' =
                   IF store
                   THEN pendingPuts \cup
                          {[key |-> cacheKey(L.req), method |-> L.req.method,
                            resp |-> response,
                            resp2 |-> MissResponse(Twin(L), L.reply),
                            reply |-> L.reply]}
                   ELSE pendingPuts
  /\ UNCHANGED <<now, rateLimitStore, cache, env, deploy, wizard, checkLog, hWin, arrivals>>

\* A cache.put handed to ctx.waitUntil (line 231) stores its response; the
\* cache takes GET requests only, and the put of another request rejects.
CachePut(p) ==
  /\ p \in pendingPuts
  /\ pendingPuts' = pendingPuts \ {p}
  /\ cache' = IF p.method = "GET"
              THEN (cache \ CacheEntries(p.key))
                     \cup {[key |-> p.key, resp |-> p.resp, resp2 |-> p.resp2,
                            reply |-> p.reply]}
              ELSE cache
  /\ UNCHANGED <<now, rateLimitStore, env, deploy, wizard, checkLog, slots, hWin, arrivals>>

\* A cache.put handed to ctx.waitUntil rejects: nobody is told.
CachePutFail(p) ==
  /\ p \in pendingPuts
  /\ pendingPuts' = pendingPuts \ {p}
  /\ UNCHANGED <<now, rateLimitStore, cache, env, deploy, wizard, checkLog, slots, hWin, arrivals>>

\* The cache drops an entry: its max-age has passed, or it was evicted.
CacheExpire(c) ==
  /\ c \in cache
  /\ cache' = cache \ {c}
  /\ UNCHANGED <<now, rateLimitStore, pendingPuts, env,
                 deploy, wizard, checkLog, slots, hWin, arrivals>>

\* The response has been returned; the invocation is over.
Deliver(s) ==
  /\ slots[s].pc = "done"
  /\ slots' = [slots EXCEPT ![s] = IdleSlot]
  /\ UNCHANGED <<now, rateLimitStore, cache, pendingPuts, env,
                 deploy, wizard, checkLog, hWin, arrivals>>

Tick ==
  /\ now + TickMs <= MaxTicks * TickMs
  /\ now' = now + TickMs
  /\ UNCHANGED <<rateLimitStore, cache, pendingPuts, env,
                 deploy, wizard, checkLog, slots, hWin, arrivals>>

\* What happens to invocation s after it has arrived.
Step(s) ==
  \/ CacheHit(s)
  \/ CacheMiss(s)
  \/ CacheMatchFail(s)
  \/ BodyRead(s)
  \/ TimerFire(s)
  \/ FetchTimeout(s)
  \/ FetchError(s)
  \/ \E reply \in Replies : FetchReply(s, reply)
  \/ TextError(s)
  \/ TextDone(s)

\* The clock of the pipeline workloads runs until the window opened at
\* time 0 is over.
FirstWindowTick == now <= windowMs /\ Tick

Background ==
  \/ \E p \in pendingPuts : CachePut(p)
  \/ \E p \in pendingPuts : CachePutFail(p)
  \/ \E c \in cache : CacheExpire(c)
  \/ FirstWindowTick

\* One request at a time, MaxArrivals requests of Requests.
Next ==
  \/ \E req \in Requests, cleanup \in BOOLEAN :
        arrivals < MaxArrivals /\ Arrive(1, req, cleanup)
  \/ Step(1)
  \/ Deliver(1)
  \/ Background

Spec == Init /\ [][Next]_vars

\* The rate-limiter workload: one request at a time, MaxRateArrivals
\* requests of RateRequests.
NextRate ==
  \/ \E req \in RateRequests, cleanup \in BOOLEAN :
        arrivals < MaxRateArrivals /\ Arrive(1, req, cleanup)
  \/ FetchTimeout(1)
  \/ FetchError(1)
  \/ \E reply \in Replies : FetchReply(1, reply)
  \/ TextError(1)
  \/ TextDone(1)
  \/ Deliver(1)
  \/ Tick

SpecRate == Init /\ [][NextRate]_vars

\* The invocation a new request gets: invocations are interchangeable.
FreeSlot(s) == slots[s].pc = "idle" /\ \A u \in 1 .. s - 1 : slots[u].pc # "idle"

\* NumConc requests of ConcRequests, in flight at once, each suspended at
\* its awaits (cache lookup, body read, upstream call, upstream body), with
\* an upstream that answers with a success status and a body.
NextConc ==
  \/ \E s \in Slots, req \in ConcRequests, cleanup \in BOOLEAN :
        FreeSlot(s) /\ Arrive(s, req, cleanup)
  \/ \E s \in Slots : CacheHit(s)
  \/ \E s \in Slots : CacheMiss(s)
  \/ \E s \in Slots : BodyRead(s)
  \/ \E s \in Slots, reply \in {r \in Replies : Ok(r.status) /\ r.status # 204} :
        FetchReply(s, reply)
  \/ \E s \in Slots : TextDone(s)
  \/ \E p \in pendingPuts : CachePut(p)
  \/ FirstWindowTick

SpecConc == Init /\ [][NextConc]_vars

\* The cache workload: GET requests for the API with cache that differ in
\* the forwarded parameter, or in the other parameters only.
CacheRequests ==
  { BaseGet,
    [BaseGet EXCEPT !.query = Query("London", Absent, Absent)],
    [BaseGet EXCEPT !.query = Query("Paris", "evil", "1")] }

NextCache ==
  \/ \E req \in CacheRequests : arrivals < MaxArrivals /\ Arrive(1, req, FALSE)
  \/ CacheHit(1)
  \/ CacheMiss(1)
  \/ \E reply \in Replies : FetchReply(1, reply)
  \/ TextDone(1)
  \/ \E p \in pendingPuts : CachePut(p)
  \/ Deliver(1)
  \/ Tick

SpecCache == Init /\ [][NextCache]_vars

(***************************************************************************)
(* checkRateLimit called directly, with the times and results of the calls *)
(* kept per identifier.                                                    *)
(***************************************************************************)
workerVars == <<now, rateLimitStore, cache, pendingPuts, env, slots, hWin, arrivals>>

\* The start of the runs that make no request to the worker.
InitCli == Init /\ env = [n \in SecretNames |-> SecretValue]

\* checkRateLimit(identifier) is called at the current time.
Check(identifier, cleanup) ==
  /\ arrivals < MaxRateArrivals
  /\ LET rl == checkRateLimit(rateLimitStore, identifier, now, cleanup)
     IN  /\ rateLimitStore' = rl.store
         /\ checkLog' = [checkLog EXCEPT ![identifier] =
                           Append(@, [t |-> now, result |-> rl.result])]
  /\ hWin' = HistCheck(hWin, identifier, now)
  /\ arrivals' = arrivals + 1
  /\ UNCHANGED <<now, cache, pendingPuts, env, slots, deploy, wizard>>

NextBurst ==
  \/ \E identifier \in Identifiers, cleanup \in BOOLEAN : Check(identifier, cleanup)
  \/ Tick

SpecBurst == InitCli /\ [][NextBurst]_vars

(***************************************************************************)
(* The command line tool's runs.                                           *)
(***************************************************************************)
\* deployCommand, lines 266-290: the config is read and, when it was
\* parsed, validated; the run ends without config or with errors.
DeployValidate(file, dryRun) ==
  /\ deploy.pc = "idle"
  /\ LET config == readWorkerConfig(file)
         result == validateConfig(config.config)
         D == [deploy EXCEPT !.file = file, !.dryRun = dryRun]
     IN  deploy' =
           IF config.kind = "null" THEN [D EXCEPT !.pc = "end"]
           ELSE IF config.kind = "parsed"
           THEN [D EXCEPT !.result = [made |-> TRUE, valid |-> result.valid],
                          !.pc = IF result.valid THEN "version" ELSE "end"]
           ELSE [D EXCEPT !.pc = "version"]
  /\ UNCHANGED <<workerVars, wizard, checkLog>>

\* run('wrangler --version') of lines 293-298 returns or throws.
WranglerVersion(ok) ==
  /\ deploy.pc = "version"
  /\ deploy' = [deploy EXCEPT !.pc = IF ok THEN "whoami" ELSE "end"]
  /\ UNCHANGED <<workerVars, wizard, checkLog>>

\* run('wrangler whoami') of lines 301-306 returns or throws; lines 308-322:
\* a dry run ends, another run calls `wrangler deploy`.
WranglerWhoami(ok) ==
  /\ deploy.pc = "whoami"
  /\ deploy' = IF ~ok \/ deploy.dryRun THEN [deploy EXCEPT !.pc = "end"]
               ELSE [deploy EXCEPT !.pc = "deploying", !.deployed = TRUE]
  /\ UNCHANGED <<workerVars, wizard, checkLog>>

\* run('wrangler deploy') of line 322 returns or throws.
WranglerDeploy ==
  /\ deploy.pc = "deploying"
  /\ deploy' = [deploy EXCEPT !.pc = "end"]
  /\ UNCHANGED <<workerVars, wizard, checkLog>>

NextDeploy ==
  \/ \E file \in WorkerFiles, dryRun \in BOOLEAN : DeployValidate(file, dryRun)
  \/ \E ok \in BOOLEAN : WranglerVersion(ok)
  \/ \E ok \in BOOLEAN : WranglerWhoami(ok)
  \/ WranglerDeploy

SpecDeploy == InitCli /\ [][NextDeploy]_vars

\* The answers typed at a prompt.
Answers == UNION { [1 .. n -> Chars] : n \in 0 .. MaxAnswerLen }

\* addAppCommand, lines 182-201: the method is chosen and the lists asked.
ChooseMethod(httpMethod) ==
  /\ wizard.pc = "idle"
  /\ wizard' = [wizard EXCEPT !.pc = "cache", !.httpMethod = httpMethod]
  /\ UNCHANGED <<workerVars, deploy, checkLog>>

\* addAppCommand, lines 203-223: the cache prompt is answered and the API
\* config built.
AnswerCache(typed) ==
  /\ wizard.pc = "cache"
  /\ wizard' = [wizard EXCEPT !.pc = "built", !.answer = typed,
                              !.api = BuildApi(wizard.httpMethod, CacheDuration(typed))]
  /\ UNCHANGED <<workerVars, deploy, checkLog>>

NextWizard ==
  \/ \E httpMethod \in {"GET", "POST"} : ChooseMethod(httpMethod)
  \/ \E typed \in Answers : AnswerCache(typed)

SpecWizard == InitCli /\ [][NextWizard]_vars

(***************************************************************************)
(* Properties.                                                             *)
(***************************************************************************)
Done(s) == slots[s].pc = "done"

\* The request went through route, app and API resolution to a configured
\* app and a configured API of it.
Routed(L) ==
  /\ L.req.method \notin {Absent, "OPTIONS"}
  /\ Len(L.req.path) >= 2
  /\ L.req.path[1] \in DOMAIN APP_CONFIG
  /\ L.req.path[2] \in DOMAIN APP_CONFIG[L.req.path[1]].apis

\* C1: the responses of two runs that differ in the value of the secret
\* only (same requests, same upstream replies, same cache behaviour) are
\* identical on every response path, and so is what the two runs put into
\* the cache: headers and bodies do not depend on the secret's value.
SecretIndependence ==
  /\ \A s \in Slots : Done(s) => slots[s].resp = slots[s].resp2
  /\ \A p \in pendingPuts : p.resp = p.resp2
  /\ \A c \in cache : c.resp = c.resp2

\* C1 witness: an upstream reply passed through to the client by a request
\* whose outbound request carried the secret, the twin run's outbound
\* request carrying the other value.
SecretUsedAndAnswered ==
  \E s \in Slots :
    /\ Done(s)
    /\ slots[s].resp.status = 200
    /\ slots[s].resp.headers["X-Cache"] = <<"MISS">>
    /\ slots[s].out.sent
    /\ slots[s].out.query["key"] = SecretValue
    /\ Twin(slots[s]).out.query["key"] # SecretValue

\* C2 (as stated): every outbound request carries `key` with exactly the
\* value of the secret store: as a query parameter for a GET API, as a body
\* field for a POST API, whatever the API's lists are.
OutboundCarriesSecret ==
  \A s \in Slots :
    slots[s].out.sent =>
      LET api == apiConfigOf(slots[s])
      IN  /\ api.method = "GET" => slots[s].out.query["key"] = env[api.secret]
          /\ api.method = "POST" =>
               /\ slots[s].out.hasBody
               /\ slots[s].out.body["key"] = env[api.secret]

\* Neither header starts with an origin of the app's whitelist.
NoHeaderStartsWithWhitelisted(L) ==
  \A i \in DOMAIN APP_CONFIG[L.req.path[1]].origins :
    /\ ~startsWith(L.req.origin, APP_CONFIG[L.req.path[1]].origins[i])
    /\ ~startsWith(L.req.referer, APP_CONFIG[L.req.path[1]].origins[i])

\* C3: a request routed to a configured app and API whose Origin and
\* Referer both do not start with a whitelisted origin (both absent
\* included) is answered 403 "Forbidden", and nothing after the origin
\* check has run for it.
ForbiddenWithoutWhitelistedHeader ==
  \A s \in Slots :
    (slots[s].pc # "idle" /\ Routed(slots[s])
       /\ NoHeaderStartsWithWhitelisted(slots[s])) =>
      /\ Done(s)
      /\ slots[s].resp.status = 403
      /\ slots[s].resp.body.error = "Forbidden"
      /\ ~Checked(slots[s])
      /\ ~slots[s].out.sent

\* C3 witness: a routed request without Origin and without Referer got 403.
ForbiddenWithoutHeaders ==
  \E s \in Slots :
    /\ Done(s)
    /\ Routed(slots[s])
    /\ slots[s].req.origin = <<>>
    /\ slots[s].req.referer = <<>>
    /\ slots[s].resp.status = 403

\* The path chunks a Referer carries after its origin.
PathChunks == {"/page", "/x"}

\* The scheme+host+port a header value denotes: the value without its path.
\* An absent header denotes none (<<>>).
OriginOf(h) ==
  IF Len(h) > 0 /\ h[Len(h)] \in PathChunks THEN SubSeq(h, 1, Len(h) - 1) ELSE h

Whitelist(appName) ==
  {APP_CONFIG[appName].origins[i] : i \in DOMAIN APP_CONFIG[appName].origins}

\* C4 (as stated): a routed request whose Origin and Referer both denote a
\* scheme+host+port that is not a whitelisted origin of the app is answered
\* 403, also when the header begins with a whitelisted origin string.
ForeignOriginForbidden ==
  \A s \in Slots :
    (Done(s) /\ Routed(slots[s])
       /\ OriginOf(slots[s].req.origin) \notin Whitelist(slots[s].req.path[1])
       /\ OriginOf(slots[s].req.referer) \notin Whitelist(slots[s].req.path[1])) =>
      slots[s].resp.status = 403

\* C5: the rate-limit check of a request is allowed exactly when it is one
\* of the first maxRequests checks of its identifier in the window opened
\* by the identifier's first check (from no entry or after the previous
\* window's end); the (maxRequests+1)-th and later ones are denied.
FirstMaxRequestsAllowed ==
  \A s \in Slots :
    Checked(slots[s]) =>
      /\ slots[s].rlN >= 1
      /\ slots[s].rateLimit.allowed <=> slots[s].rlN <= maxRequests
      /\ slots[s].at <= slots[s].rateLimit.resetAt

\* C5 witness: the (maxRequests+1)-th check of a window was denied after
\* maxRequests allowed ones.
OneTooManyDenied ==
  \E s \in Slots :
    /\ Checked(slots[s])
    /\ slots[s].rlN = maxRequests + 1
    /\ slots[s].rlBefore.count = maxRequests
    /\ ~slots[s].rateLimit.allowed
    /\ slots[s].resp.status = 429

\* The entry the check found has used up its window and the window is not
\* over.
FoundExhausted(L) ==
  /\ Checked(L)
  /\ L.rlBefore.has
  /\ L.rlBefore.count >= maxRequests
  /\ L.at <= L.rlBefore.resetAt

\* C6: no entry's count exceeds maxRequests, and a check that finds an
\* entry with count >= maxRequests at a time <= its resetAt returns
\* allowed = false, remaining = 0, and leaves the entry as it was.
CountBoundedAndBlocked ==
  /\ \A id \in Identifiers : rateLimitStore[id].count <= maxRequests
  /\ \A s \in Slots :
       FoundExhausted(slots[s]) =>
         /\ ~slots[s].rateLimit.allowed
         /\ slots[s].rateLimit.remaining = 0
         /\ slots[s].rateLimit.resetAt = slots[s].rlBefore.resetAt
         /\ slots[s].rlAfter = slots[s].rlBefore

\* C6 witness: a check at the very end of the window found the exhausted
\* entry and was blocked, the entry staying at maxRequests.
BlockedAtWindowEnd ==
  \E s \in Slots :
    /\ FoundExhausted(slots[s])
    /\ slots[s].at = slots[s].rlBefore.resetAt
    /\ ~slots[s].rateLimit.allowed
    /\ rateLimitStore[rateLimitKey(slots[s].req)].count = maxRequests

\* The check found an entry whose window is over.
FoundExpired(L) ==
  /\ Checked(L)
  /\ L.rlBefore.has
  /\ L.at > L.rlBefore.resetAt

\* C7: a check after the entry's resetAt is allowed whatever the entry's
\* count was, replaces the entry by count = 1, resetAt = now + windowMs and
\* returns remaining = maxRequests - 1.
AllowedAfterReset ==
  \A s \in Slots :
    FoundExpired(slots[s]) =>
      /\ slots[s].rateLimit.allowed
      /\ slots[s].rateLimit.remaining = maxRequests - 1
      /\ slots[s].rateLimit.resetAt = slots[s].at + windowMs
      /\ slots[s].rlAfter = [has |-> TRUE, count |-> 1,
                             resetAt |-> slots[s].at + windowMs]
      /\ slots[s].resp.status # 429

\* C7 witness: an identifier that had been denied in its previous window
\* was allowed by its first check after that window.
UnblockedAfterReset ==
  \E s \in Slots :
    /\ FoundExpired(slots[s])
    /\ slots[s].rlBefore.count = maxRequests
    /\ slots[s].rlPrevN = maxRequests + 1
    /\ slots[s].rateLimit.allowed

\* The invocations whose rate-limit check fell into the window of
\* identifier id that ends at resetAt.
InWindow(id, resetAt) ==
  {s \in Slots : /\ Checked(slots[s])
                 /\ rateLimitKey(slots[s].req) = id
                 /\ slots[s].rateLimit.resetAt = resetAt}

InFlight(s) == slots[s].pc \notin {"idle", "done"}

\* C8: with the requests of an identifier in flight at once and their
\* awaits interleaved in every way, at most maxRequests of the requests of
\* one window pass the rate-limit check, every other one is answered 429,
\* and more than maxRequests requests in one window give at least one 429.
AtMostMaxRequestsPass ==
  \A id \in Identifiers :
    \A w \in {slots[s].rateLimit.resetAt : s \in Slots} :
      LET S == InWindow(id, w)
          Passed == {s \in S : slots[s].rateLimit.allowed}
      IN  /\ Cardinality(Passed) <= maxRequests
          /\ \A s \in S \ Passed : Done(s) /\ slots[s].resp.status = 429
          /\ \A s \in Passed : slots[s].resp.status # 429
          /\ Cardinality(S) > maxRequests =>
               \E s \in S : slots[s].resp.status = 429
          /\ rateLimitStore[id].has /\ rateLimitStore[id].resetAt = w =>
               rateLimitStore[id].count = Cardinality(Passed)

\* C8 witness: maxRequests requests of one window are suspended at their
\* awaits, at two different ones, while one more of the window got its 429.
OneTooManyWhileInFlight ==
  \E id \in Identifiers :
    \E w \in {slots[s].rateLimit.resetAt : s \in Slots} :
      LET S == InWindow(id, w)
      IN  /\ Cardinality({s \in S : InFlight(s)}) = maxRequests
          /\ Cardinality({slots[s].pc : s \in {u \in S : InFlight(u)}}) >= 2
          /\ \E s \in S : slots[s].resp.status = 429

StageOrder ==
  << "route", "app", "api", "origin", "rateLimit", "cacheLookup", "secret",
     "forward", "cacheStore", "assemble" >>

\* The stages that may come right after a stage: the next one, or the one
\* after an optional stage (cacheLookup and cacheStore, for APIs with
\* cache), or assemble after a cache hit.
FollowedBy(stage) ==
  CASE stage = "route" -> {"app"}
    [] stage = "app" -> {"api"}
    [] stage = "api" -> {"origin"}
    [] stage = "origin" -> {"rateLimit"}
    [] stage = "rateLimit" -> {"cacheLookup", "secret"}
    [] stage = "cacheLookup" -> {"secret", "assemble"}
    [] stage = "secret" -> {"forward"}
    [] stage = "forward" -> {"cacheStore", "assemble"}
    [] stage = "cacheStore" -> {"assemble"}
    [] OTHER -> {}

StageIndex(stage) == CHOOSE i \in DOMAIN StageOrder : StageOrder[i] = stage

\* The stages at which an error response is made.
ErrorStages(error) ==
  CASE error = "Invalid route. Use /{appName}/{apiName}" -> {"route"}
    [] error = "Unknown app" -> {"app"}
    [] error = "Unknown API endpoint" -> {"api"}
    [] error = "Forbidden" -> {"origin"}
    [] error = "Too Many Requests" -> {"rateLimit"}
    [] error = "Configuration error" -> {"secret"}
    [] error = "Bad Gateway" -> {"forward"}
    [] error = "Gateway Timeout" -> {"forward"}
    [] error = "Internal server error" -> {"api", "cacheLookup", "forward"}
    [] OTHER -> {}

LastStage(L) == L.stages[Len(L.stages)]

\* C9: the stages of a non-OPTIONS request are run in the fixed order, none
\* but the cache stages skipped; an error response is made at the stage
\* that failed, which is the last one run; the rate-limit check, the secret
\* read and the upstream call belong to requests that reached their stage;
\* a cache hit is answered without secret and without upstream call.
StagesInFixedOrder ==
  \A s \in Slots :
    LET L == slots[s]
        st == L.stages
    IN  /\ (L.pc # "idle" /\ L.req.method # "OPTIONS") =>
             Len(st) > 0 /\ st[1] = "route"
        /\ \A i \in 1 .. Len(st) - 1 :
             /\ st[i + 1] \in FollowedBy(st[i])
             /\ StageIndex(st[i]) < StageIndex(st[i + 1])
        /\ (Done(s) /\ L.resp.body.kind = "json") =>
             LastStage(L) \in ErrorStages(L.resp.body.error)
        /\ (Done(s) /\ L.resp.body.kind = "raw") => LastStage(L) = "assemble"
        /\ Checked(L) <=> \E i \in DOMAIN st : st[i] = "rateLimit"
        /\ L.secretValue # Absent => \E i \in DOMAIN st : st[i] = "secret"
        /\ (L.out.sent \/ L.pc \in {"bodyRead", "fetch", "text"}) =>
             \E i \in DOMAIN st : st[i] = "forward"
        /\ L.pc = "cacheMatch" => LastStage(L) = "cacheLookup"
        /\ (Done(s) /\ L.resp.headers["X-Cache"] = <<"HIT">>) =>
             /\ ~L.out.sent
             /\ L.secretValue = Absent
             /\ \A i \in DOMAIN st : st[i] \notin {"secret", "forward", "cacheStore"}

\* C9 witness: a request answered from the upstream went through all ten
\* stages.
AllStagesRun ==
  \E s \in Slots :
    /\ Done(s)
    /\ slots[s].stages = StageOrder
    /\ slots[s].resp.headers["X-Cache"] = <<"MISS">>

AllowedParams(api) == {api.params.list[i] : i \in DOMAIN api.params.list}

\* C10: the query of the outbound request of a GET API holds nothing but
\* `key` and the parameters of the API's params list that the client sent,
\* with the client's values; a parameter not in the list is not passed on.
OnlyAllowedParamsForwarded ==
  \A s \in Slots :
    (slots[s].out.sent /\ apiConfigOf(slots[s]).method = "GET") =>
      LET api == apiConfigOf(slots[s])
          inq == slots[s].req.query
          outq == slots[s].out.query
      IN  \A p \in ParamNames :
            /\ (p \notin AllowedParams(api) /\ p # "key") => outq[p] = Absent
            /\ (p \in AllowedParams(api) /\ Truthy(inq[p])) => outq[p] = inq[p]
            /\ (p \in AllowedParams(api) /\ p # "key" /\ ~Truthy(inq[p])) =>
                 outq[p] = Absent

\* C10 witness: a request with an allowed and a not allowed parameter was
\* forwarded with the allowed one only.
UnlistedParamDropped ==
  \E s \in Slots :
    /\ slots[s].out.sent
    /\ apiConfigOf(slots[s]).method = "GET"
    /\ slots[s].req.query["admin"] = "1"
    /\ slots[s].out.query["admin"] = Absent
    /\ slots[s].req.query["q"] = "London"
    /\ slots[s].out.query["q"] = "London"

AllowedFields(api) == {api.bodyFields.list[i] : i \in DOMAIN api.bodyFields.list}

\* The fields of the JSON object the client sent (none when the body is
\* not a JSON object).
ClientFields(L) ==
  IF L.req.body.kind = "object" THEN L.req.body.fields
  ELSE [f \in FieldNames |-> Absent]

\* C11: the body of the outbound request of a POST API holds, besides the
\* injected `key` with the secret's value, exactly the client's fields named
\* in the API's bodyFields list, with the client's values; every other
\* client field is absent.
OnlyAllowedFieldsForwarded ==
  \A s \in Slots :
    (slots[s].out.sent /\ slots[s].out.hasBody) =>
      LET api == apiConfigOf(slots[s])
      IN  /\ api.method = "POST"
          /\ slots[s].out.body["key"] = env[api.secret]
          /\ \A f \in FieldNames \ {"key"} :
               slots[s].out.body[f] =
                 IF f \in AllowedFields(api) THEN ClientFields(slots[s])[f]
                 ELSE Absent

\* C11 witness: a body with an allowed field, a field that is not allowed
\* and a client `key` was forwarded with the allowed field and the secret.
UnlistedFieldDropped ==
  \E s \in Slots :
    /\ slots[s].out.sent
    /\ slots[s].out.hasBody
    /\ slots[s].req.body.kind = "object"
    /\ slots[s].req.body.fields["admin"] = "1"
    /\ slots[s].out.body["admin"] = Absent
    /\ slots[s].req.body.fields["event"] = "click"
    /\ slots[s].out.body["event"] = "click"
    /\ slots[s].req.body.fields["key"] = "evil"
    /\ slots[s].out.body["key"] = SecretValue

HasStage(L, name) == \E i \in DOMAIN L.stages : L.stages[i] = name

\* C12 (as stated): a request to a POST API whose body is absent, is not
\* JSON or is JSON but not an object is, once its body has been read (and
\* unless the timeout has aborted it meanwhile), forwarded with a body that
\* holds `key` only; the body causes no error response.
MalformedBodyForwarded ==
  \A s \in Slots :
    LET L == slots[s]
    IN  ( /\ L.pc \notin {"idle", "bodyRead"}
          /\ Routed(L)
          /\ apiConfigOf(L).method = "POST"
          /\ L.req.body.kind # "object"
          /\ HasStage(L, "forward")
          /\ ~L.aborted ) =>
          /\ L.out.sent
          /\ L.out.hasBody
          /\ L.out.body = [[f \in FieldNames |-> Absent] EXCEPT
                             !["key"] = env[apiConfigOf(L).secret]]
          /\ L.resp.body.error # "Internal server error"

\* C13: a request that cache.match answered with a response has read no
\* secret and has issued no outbound call, and has got no upstream reply.
CacheHitNeverForwards ==
  \A s \in Slots :
    slots[s].hit.found =>
      /\ Done(s)
      /\ slots[s].secretValue = Absent
      /\ ~slots[s].out.sent
      /\ slots[s].out.url = Absent
      /\ slots[s].reply.status = 0

\* C13 witness: a request was answered 200 from the cache.
AnsweredFromCache ==
  \E s \in Slots :
    /\ slots[s].hit.found
    /\ slots[s].resp.status = 200
    /\ slots[s].resp.headers["X-Cache"] = <<"HIT">>

RateLimitHeaderNames ==
  {"X-RateLimit-Limit", "X-RateLimit-Remaining", "X-RateLimit-Reset"}
CORSHeaderNames == {"Access-Control-Allow-Origin", "Access-Control-Allow-Methods"}

TtlOf(path) ==
  IF Len(path) >= 2 /\ path[1] \in DOMAIN APP_CONFIG
  THEN ApiConfigOf(path[1], path[2]).cache
  ELSE 0

\* An upstream response with a 2xx status, as it was made for the client.
FromSuccessfulUpstream(e) ==
  /\ e.reply.status \in 200 .. 299
  /\ e.resp.status = e.reply.status
  /\ e.resp.body.kind = "raw"
  /\ e.resp.body.data = e.reply.data
  /\ TtlOf(e.key.path) > 0

\* C15: every cache entry, and every response handed to cache.put, was
\* made from an upstream response with a 2xx status for an API with
\* cache > 0; no gateway error and no other upstream response is written;
\* a request to an API without cache neither reads nor writes the cache.
CacheHoldsSuccessesOnly ==
  /\ \A c \in cache : FromSuccessfulUpstream(c)
  /\ \A p \in pendingPuts : FromSuccessfulUpstream(p)
  /\ \A s \in Slots :
       /\ HasStage(slots[s], "cacheStore") =>
            /\ slots[s].reply.status \in 200 .. 299
            /\ TtlOf(slots[s].req.path) > 0
       /\ (slots[s].pc # "idle" /\ TtlOf(slots[s].req.path) = 0) =>
            /\ slots[s].pc # "cacheMatch"
            /\ ~slots[s].hit.found
            /\ ~HasStage(slots[s], "cacheLookup")
            /\ ~HasStage(slots[s], "cacheStore")

\* C15 witness: the cache holds a 200 response while a request to the same
\* API has been answered with the upstream's 404 and nothing is left to be
\* written.
NotFoundNotCached ==
  /\ \E c \in cache : c.reply.status = 200
  /\ pendingPuts = {}
  /\ \E s \in Slots :
       /\ Done(s)
       /\ TtlOf(slots[s].req.path) > 0
       /\ slots[s].reply.status = 404
       /\ slots[s].resp.status = 404

\* The count an entry has after one more request has been counted.
CountedOnce(before, t) ==
  IF before.has /\ t <= before.resetAt THEN before.count + 1 ELSE 1

\* C16: every routed request that passed the origin check has had its
\* rate-limit check; the cache is consulted only after an allowed check; a
\* request answered from the cache has raised its identifier's count by
\* one; a request over the limit gets 429 without the cache being consulted.
RateLimitBeforeCache ==
  \A s \in Slots :
    LET L == slots[s]
    IN  /\ (L.pc # "idle" /\ Routed(L) /\ ~NoHeaderStartsWithWhitelisted(L)) =>
             Checked(L)
        /\ (HasStage(L, "cacheLookup") \/ L.pc = "cacheMatch" \/ L.hit.found) =>
             /\ Checked(L)
             /\ L.rateLimit.allowed
             /\ \E i, j \in DOMAIN L.stages :
                  i < j /\ L.stages[i] = "rateLimit" /\ L.stages[j] = "cacheLookup"
        /\ L.hit.found =>
             /\ L.rlAfter.has
             /\ L.rlAfter.count = CountedOnce(L.rlBefore, L.at)
             /\ L.rateLimit.remaining = maxRequests - L.rlAfter.count
        /\ (Checked(L) /\ ~L.rateLimit.allowed) =>
             /\ Done(s)
             /\ L.resp.status = 429
             /\ ~HasStage(L, "cacheLookup")
             /\ ~L.hit.found

\* C16 witness: a request got 429 while the cache held a response for its
\* URL.
TooManyDespiteCachedResponse ==
  \E s \in Slots :
    /\ Done(s)
    /\ slots[s].resp.status = 429
    /\ slots[s].req.method = "GET"
    /\ \E c \in cache : c.key = cacheKey(slots[s].req)

\* The invocations that have called the upstream for a URL of an API with
\* cache.
UpstreamCallsFor(key) ==
  {s \in Slots : /\ slots[s].out.sent
                 /\ slots[s].req.method = "GET"
                 /\ cacheKey(slots[s].req) = key
                 /\ TtlOf(slots[s].req.path) > 0}

\* C17 (as stated): among the requests for one URL of an API with cache
\* that arrive within one TTL period (the clock of the model stays far
\* below the TTL and no entry expires), those in flight at once included,
\* the upstream is called at most once.
UpstreamCalledOncePerUrl ==
  \A s \in Slots :
    Cardinality(UpstreamCallsFor(cacheKey(slots[s].req))) <= 1

\* C18 (as stated): a request whose cache lookup raised an error goes on as
\* after a miss (secret, upstream call) and is not answered with an error
\* status on account of the cache.
CacheFailureSwallowed ==
  \A s \in Slots :
    slots[s].cause = "cache" =>
      /\ HasStage(slots[s], "secret")
      /\ slots[s].resp.status < 500

\* The request passed the rate limit and the cache, if consulted, gave no
\* response (and did not fail).
PastCacheWithoutHit(L) ==
  /\ Routed(L)
  /\ Checked(L)
  /\ L.rateLimit.allowed
  /\ L.pc # "cacheMatch"
  /\ ~L.hit.found
  /\ L.cause # "cache"

\* C19: a request that is not answered from the cache and whose API's
\* secret is absent from the secret store is answered 500 "Configuration
\* error", without outbound call.
MissingSecretIsConfigurationError ==
  \A s \in Slots :
    (PastCacheWithoutHit(slots[s])
       /\ ~Truthy(env[apiConfigOf(slots[s]).secret])) =>
      /\ Done(s)
      /\ slots[s].resp.status = 500
      /\ slots[s].resp.body.error = "Configuration error"
      /\ ~slots[s].out.sent
      /\ slots[s].out.url = Absent
      /\ ~HasStage(slots[s], "forward")

\* C19 witness: after a cache miss, with the secret missing, the request
\* got the configuration error.
ConfigurationErrorAfterMiss ==
  \E s \in Slots :
    /\ Done(s)
    /\ HasStage(slots[s], "cacheLookup")
    /\ env[apiConfigOf(slots[s]).secret] = Absent
    /\ slots[s].resp.status = 500
    /\ slots[s].resp.body.error = "Configuration error"

\* A response the gateway made itself, with the given status and error.
GatewayError(L, status, error) ==
  /\ L.pc = "done"
  /\ L.resp.status = status
  /\ L.resp.body.kind = "json"
  /\ L.resp.body.error = error
  /\ L.resp.headers["X-Cache"] = <<>>
  /\ ~HasStage(L, "assemble")

\* C20: an upstream call aborted by the timeout (while pending, or at once
\* because the timer fired before the call) ends the request with 504
\* "Gateway Timeout"; a call that failed otherwise (fetch or the reading of
\* the body rejected) ends it with 502 "Bad Gateway"; a gateway 504 comes
\* from the timeout only; neither is answered like a success.
UpstreamFailureStatus ==
  \A s \in Slots :
    /\ slots[s].cause = "timeout" =>
         /\ slots[s].aborted
         /\ GatewayError(slots[s], 504, "Gateway Timeout")
    /\ slots[s].cause = "error" =>
         /\ ~slots[s].aborted
         /\ GatewayError(slots[s], 502, "Bad Gateway")
    /\ (Done(s) /\ slots[s].resp.status = 504) => slots[s].cause = "timeout"
    /\ (Done(s) /\ slots[s].resp.body.error = "Gateway Timeout") =>
         slots[s].cause = "timeout"

\* C20 witness: a pending upstream call was aborted by the timeout and the
\* request got 504.
TimedOutWhilePending ==
  \E s \in Slots :
    /\ slots[s].cause = "timeout"
    /\ slots[s].out.sent
    /\ now >= slots[s].deadline
    /\ slots[s].resp.status = 504

\* The invocation waits for the upstream: for the response headers (the
\* pending fetch) or for the response body (the pending text()).
WaitsOnUpstream(L) == L.pc \in {"fetch", "text"}

\* C21 (as stated): the wait on the upstream is bounded by the timeout:
\* whenever an invocation waits for the upstream's headers or body, the
\* timer that aborts the call is armed, so that the wait ends, with 504 at
\* the latest, when it fires.
UpstreamWaitBounded ==
  \A s \in Slots :
    WaitsOnUpstream(slots[s]) => slots[s].deadline >= 0

GatewayErrorStatuses == {403, 404, 429, 500, 502, 504}

\* C22: every finished invocation has returned an HTTP response; every
\* exception raised on the way (rejected cache lookup, TypeError of the
\* registry lookup or of the body filter, failed or aborted upstream call,
\* failed construction of the response) has become a 500, 502 or 504, the
\* unanticipated ones a 500 "Internal server error"; every response the
\* gateway made itself, other than the preflight's 204, has one of the error
\* statuses and a JSON body with a non-empty string `error`.
EveryFailureAnswered ==
  \A s \in Slots :
    LET L == slots[s]
    IN  /\ Done(s) => L.resp.status \in 200 .. 599
        /\ L.cause # "none" =>
             /\ Done(s)
             /\ L.resp.status \in {500, 502, 504}
             /\ L.resp.body.kind = "json"
        /\ L.cause \in {"body", "lookup", "cache"} =>
             /\ L.resp.status = 500
             /\ L.resp.body.error = "Internal server error"
        /\ (Done(s) /\ L.resp.body.kind # "raw" /\ L.req.method # "OPTIONS") =>
             /\ L.resp.status \in GatewayErrorStatuses
             /\ L.resp.body.kind = "json"
             /\ Truthy(L.resp.body.error)
             /\ L.resp.headers["Content-Type"] = <<"application/json">>
        /\ (Done(s) /\ L.resp.body.kind = "raw") =>
             L.resp.status = (IF L.hit.found THEN L.hit.reply.status
                              ELSE L.reply.status)

\* C22 witness: the TypeError of the body filter was answered with 500.
BodyTypeErrorAnswered ==
  \E s \in Slots :
    /\ Done(s)
    /\ slots[s].cause = "body"
    /\ slots[s].resp.status = 500
    /\ slots[s].resp.body.error = "Internal server error"

\* The whole seconds from time t until resetAt, rounded up.
SecondsUntil(resetAt, t) ==
  CHOOSE n \in 0 .. (windowMs \div 1000) + 1 :
    /\ n * 1000 >= resetAt - t
    /\ (n - 1) * 1000 < resetAt - t

\* C23: a request the rate limiter denied is answered, at the rate-limit
\* stage, with 429 and error "Too Many Requests", Retry-After = the seconds
\* until the resetAt of the entry the check found, X-RateLimit-Remaining = 0
\* and X-RateLimit-Reset = that resetAt; no cache lookup was made for it, no
\* secret read, no upstream call, and no cache write is pending for it.
DeniedGetsTooManyRequests ==
  \A s \in Slots :
    LET L == slots[s]
    IN  (Checked(L) /\ ~L.rateLimit.allowed) =>
          /\ Done(s)
          /\ L.rlBefore.has
          /\ L.resp.status = 429
          /\ L.resp.body.kind = "json"
          /\ L.resp.body.error = "Too Many Requests"
          /\ L.resp.headers["Retry-After"] =
               << SecondsUntil(L.rlBefore.resetAt, L.at) >>
          /\ L.resp.headers["X-RateLimit-Remaining"] = <<0>>
          /\ L.resp.headers["X-RateLimit-Reset"] = << L.rlBefore.resetAt >>
          /\ LastStage(L) = "rateLimit"
          /\ ~HasStage(L, "cacheLookup")
          /\ L.hit = NoHit
          /\ L.secretValue = Absent
          /\ L.out = NoOut
          /\ L.reply = NoReply

\* C23 witness: a request denied a full window before the reset, told to
\* retry after one second.
DeniedWithRetryAfter ==
  \E s \in Slots :
    /\ Checked(slots[s])
    /\ ~slots[s].rateLimit.allowed
    /\ slots[s].rlBefore.resetAt - slots[s].at = windowMs
    /\ slots[s].resp.headers["Retry-After"] = <<1>>

\* C24 (as stated): every response to a request that passed the origin
\* check of a configured app and API carries X-RateLimit-Limit,
\* X-RateLimit-Remaining and X-RateLimit-Reset, whatever its status.
RateLimitHeadersOnEveryResponse ==
  \A s \in Slots :
    (Done(s) /\ Checked(slots[s])) =>
      \A h \in RateLimitHeaderNames : slots[s].resp.headers[h] # <<>>

\* C25: a non-OPTIONS request whose path has fewer than two non-empty
\* segments is answered at once with 404 and the error "Invalid route. Use
\* /{appName}/{apiName}", whatever its Origin; no rate-limit check was made
\* for it, no cache lookup, no secret read and no upstream call.
ShortPathIsInvalidRoute ==
  \A s \in Slots :
    LET L == slots[s]
    IN  (L.pc # "idle" /\ L.req.method # "OPTIONS" /\ Len(L.req.path) < 2) =>
          /\ Done(s)
          /\ L.resp.status = 404
          /\ L.resp.body.kind = "json"
          /\ L.resp.body.error = "Invalid route. Use /{appName}/{apiName}"
          /\ L.stages = <<"route">>
          /\ ~Checked(L)
          /\ L.rlBefore = NoEntry /\ L.rlAfter = NoEntry
          /\ L.hit = NoHit
          /\ L.secretValue = Absent
          /\ L.out = NoOut
          /\ L.reply = NoReply

\* C25 witness: a GET of the empty path from an origin that no app lists
\* was answered with 404, not with 403.
InvalidRouteFromAnyOrigin ==
  \E s \in Slots :
    /\ Done(s)
    /\ slots[s].req.method = "GET"
    /\ slots[s].req.path = <<>>
    /\ slots[s].req.origin # <<>>
    /\ \A a \in DOMAIN APP_CONFIG :
         ~isAllowed(APP_CONFIG[a], slots[s].req.origin, slots[s].req.referer)
    /\ slots[s].resp.status = 404

\* C26 (as stated): a non-OPTIONS request with at least two path segments
\* whose first segment is not an app name of the registry is answered 404
\* "Unknown app" with the list of app names; otherwise, when its second
\* segment is not an API name of that app, it is answered 404 "Unknown API
\* endpoint" with the list of the app's API names.
UnknownNamesAreNotFound ==
  \A s \in Slots :
    LET L == slots[s]
    IN  (L.pc # "idle" /\ L.req.method # "OPTIONS" /\ Len(L.req.path) >= 2) =>
          IF L.req.path[1] \notin DOMAIN APP_CONFIG
          THEN /\ Done(s)
               /\ L.resp.status = 404
               /\ L.resp.body.error = "Unknown app"
               /\ L.resp.body.extra = <<"availableApps", DOMAIN APP_CONFIG>>
          ELSE L.req.path[2] \notin DOMAIN APP_CONFIG[L.req.path[1]].apis =>
                 /\ Done(s)
                 /\ L.resp.status = 404
                 /\ L.resp.body.error = "Unknown API endpoint"
                 /\ L.resp.body.extra =
                      <<"availableApis", DOMAIN APP_CONFIG[L.req.path[1]].apis>>

\* C27: the arrival of an OPTIONS request is answered in the same step with
\* 204, Access-Control-Allow-Origin = the request's Origin ("*" without
\* one), Access-Control-Allow-Methods "GET, POST, OPTIONS",
\* Access-Control-Allow-Headers "Content-Type" and Access-Control-Max-Age;
\* the step leaves every rate-limit entry, the cache and the pending cache
\* writes as they were, and the invocation ran no stage, read no secret and
\* made no upstream call.
PreflightAnsweredWithoutEffect ==
  [][ \A s \in Slots :
        (slots[s].pc = "idle" /\ slots'[s].pc # "idle"
           /\ slots'[s].req.method = "OPTIONS") =>
          LET L == slots'[s]
          IN  /\ L.pc = "done"
              /\ L.resp.status = 204
              /\ L.resp.headers["Access-Control-Allow-Origin"] =
                   (IF L.req.origin = <<>> THEN <<"*">> ELSE L.req.origin)
              /\ L.resp.headers["Access-Control-Allow-Methods"] =
                   <<"GET, POST, OPTIONS">>
              /\ L.resp.headers["Access-Control-Allow-Headers"] =
                   <<"Content-Type">>
              /\ L.resp.headers["Access-Control-Max-Age"] # <<>>
              /\ rateLimitStore' = rateLimitStore
              /\ hWin' = hWin
              /\ cache' = cache
              /\ pendingPuts' = pendingPuts
              /\ L.stages = <<>>
              /\ ~Checked(L)
              /\ L.hit = NoHit
              /\ L.secretValue = Absent
              /\ L.out = NoOut
              /\ L.reply = NoReply ]_vars

\* C27 witness: a preflight with an Origin was answered with that Origin
\* echoed while the rate limiter held an entry.
PreflightEchoedOrigin ==
  \E s \in Slots :
    /\ Done(s)
    /\ slots[s].req.method = "OPTIONS"
    /\ slots[s].req.origin # <<>>
    /\ slots[s].resp.status = 204
    /\ slots[s].resp.headers["Access-Control-Allow-Origin"] = slots[s].req.origin
    /\ \E id \in Identifiers : rateLimitStore[id].has

\* C28 (as stated): every error response has Access-Control-Allow-Origin;
\* it is "*" on the errors made before the origin was validated (invalid
\* route, unknown app, unknown API, forbidden) and the request's Origin on
\* the errors made after (429, 500, 502, 504).
ErrorsEchoValidatedOrigin ==
  \A s \in Slots :
    LET L == slots[s]
        acao == L.resp.headers["Access-Control-Allow-Origin"]
    IN  (Done(s) /\ L.resp.body.kind = "json") =>
          /\ acao # <<>>
          /\ ~HasStage(L, "rateLimit") => acao = <<"*">>
          /\ (HasStage(L, "rateLimit") /\ L.req.origin # <<>>) =>
               acao = L.req.origin

\* C29: every response passed through from the upstream, fresh or cached,
\* carries X-StatEnv-App and X-StatEnv-API = the app and API names of the
\* request's path, Cache-Control = "public, max-age=<cache>" for an API with
\* cache and "no-cache" for one without, and X-Cache; X-Cache is HIT exactly
\* when the invocation was answered from a cache entry without an upstream
\* call and MISS exactly when the invocation called the upstream.
SuccessHeadersTellTheSource ==
  \A s \in Slots :
    LET L == slots[s]
        ttl == TtlOf(L.req.path)
    IN  (Done(s) /\ L.resp.body.kind = "raw") =>
          /\ Len(L.req.path) >= 2
          /\ L.resp.headers["X-StatEnv-App"] = << L.req.path[1] >>
          /\ L.resp.headers["X-StatEnv-API"] = << L.req.path[2] >>
          /\ L.resp.headers["Cache-Control"] =
               (IF ttl > 0 THEN <<"public, max-age=", ttl>> ELSE <<"no-cache">>)
          /\ L.resp.headers["X-Cache"] \in { <<"HIT">>, <<"MISS">> }
          /\ L.resp.headers["X-Cache"] = <<"HIT">> <=>
               (L.hit.found /\ ~L.out.sent)
          /\ L.resp.headers["X-Cache"] = <<"MISS">> <=>
               (L.out.sent /\ ~L.hit.found)

\* C29 witness: a response served from the cache, marked HIT, for an API
\* with cache.
ServedFromCacheMarkedHit ==
  \E s \in Slots :
    /\ Done(s)
    /\ slots[s].resp.body.kind = "raw"
    /\ slots[s].hit.found
    /\ slots[s].resp.headers["X-Cache"] = <<"HIT">>
    /\ slots[s].resp.headers["Cache-Control"] =
         <<"public, max-age=", TtlOf(slots[s].req.path)>>

\* C30: no step deletes or reopens a rate-limit entry whose window is not
\* over (now <= resetAt): the entry stays, with its resetAt and a count that
\* is not smaller, whichever identifier's request runs the cleanup; so an
\* identifier whose entry has count >= maxRequests stays blocked until its
\* resetAt.
CleanupSparesLiveEntries ==
  [][ \A id \in Identifiers :
        (rateLimitStore[id].has /\ now <= rateLimitStore[id].resetAt) =>
          /\ rateLimitStore'[id].has
          /\ rateLimitStore'[id].resetAt = rateLimitStore[id].resetAt
          /\ rateLimitStore'[id].count >= rateLimitStore[id].count ]_vars

\* C30 witness: a request of a blocked identifier ran the cleanup, which
\* deleted the expired entry of another identifier, and was denied.
BlockedAcrossCleanup ==
  \E a, b \in Identifiers :
    /\ a # b
    /\ hWin[b].open
    /\ ~rateLimitStore[b].has
    /\ rateLimitStore[a].has
    /\ rateLimitStore[a].count >= maxRequests
    /\ now <= rateLimitStore[a].resetAt
    /\ \E s \in Slots :
         /\ FoundExhausted(slots[s])
         /\ ~slots[s].rateLimit.allowed
         /\ slots[s].at = now
         /\ rateLimitKey(slots[s].req) = a

\* The times at which a next check may be made.
CheckTimes == { k * TickMs : k \in 0 .. MaxTicks + 1 }

\* C31: a rate-limit check made for one identifier leaves the live entry of
\* every other identifier as it was, and leaves unchanged the result that
\* a next check of any other identifier returns, at whatever later time and
\* with or without cleanup; a check is denied only when its own identifier
\* had made maxRequests checks in its window before.
QuotaPerIdentifier ==
  [][ \A s \in Slots :
        (slots[s].pc = "idle" /\ slots'[s].pc # "idle" /\ Checked(slots'[s])) =>
          /\ \A b \in Identifiers \ { rateLimitKey(slots'[s].req) } :
               /\ (rateLimitStore[b].has /\ now <= rateLimitStore[b].resetAt) =>
                    rateLimitStore'[b] = rateLimitStore[b]
               /\ \A t \in CheckTimes, c \in BOOLEAN :
                    t >= now =>
                      checkRateLimit(rateLimitStore', b, t, c).result =
                        checkRateLimit(rateLimitStore, b, t, c).result
          /\ ~slots'[s].rateLimit.allowed =>
               slots'[s].rlPrevN >= maxRequests ]_vars

\* C31 witness: a check of one identifier was allowed while the entry of
\* another identifier was exhausted and its window not over.
AllowedBesideExhausted ==
  \E s \in Slots, a \in Identifiers :
    /\ Checked(slots[s])
    /\ slots[s].at = now
    /\ slots[s].rateLimit.allowed
    /\ a # rateLimitKey(slots[s].req)
    /\ rateLimitStore[a].has
    /\ rateLimitStore[a].count >= maxRequests
    /\ now <= rateLimitStore[a].resetAt

\* C32: an invocation calls the upstream at most once; an invocation whose
\* upstream call timed out or failed has answered 504 or 502 and has made
\* no further call.
NothingRetried ==
  \A s \in Slots :
    LET L == slots[s]
    IN  /\ L.calls <= 1
        /\ L.out.sent <=> L.calls = 1
        /\ L.cause \in {"timeout", "error", "construct"} =>
             /\ Done(s)
             /\ L.resp.status \in {502, 504}
             /\ L.calls <= 1

\* C32 witness: the one upstream call of an invocation was rejected and the
\* invocation answered 502.
FailedOnceAnswered ==
  \E s \in Slots :
    /\ Done(s)
    /\ slots[s].cause = "error"
    /\ slots[s].reply = NoReply
    /\ slots[s].calls = 1
    /\ slots[s].resp.status = 502

\* C33 (as stated): `wrangler deploy` is run only after validateConfig
\* returned valid = true for the configuration of src/index.js, and it is
\* not run when that configuration has errors.
DeployOnlyAfterValidConfig ==
  deploy.deployed =>
    /\ deploy.result.made
    /\ deploy.result.valid
    /\ validateConfig(deploy.file.config).valid

RECURSIVE NumeralValue(_)
NumeralValue(str) ==
  IF str = <<>> THEN 0
  ELSE 10 * NumeralValue(SubSeq(str, 1, Len(str) - 1)) + DigitValue(str[Len(str)])

\* C34 (as stated): the API config built by the wizard has no cache when
\* the answer to the cache prompt is the number 0, cache = 300 when the
\* answer is empty, and cache = n when the answer is a positive integer n.
CacheAnswerDeterminesConfig ==
  wizard.pc = "built" =>
    LET typed == wizard.answer
        numeral == typed # <<>> /\ \A i \in DOMAIN typed : typed[i] \in Digits
    IN  /\ typed = <<>> => wizard.api.cache = Cache(300)
        /\ (numeral /\ NumeralValue(typed) = 0) => ~wizard.api.cache.set
        /\ (numeral /\ NumeralValue(typed) > 0) =>
             wizard.api.cache = Cache(NumeralValue(typed))

\* The result of the n-th check of a fixed window that ends at resetAt:
\* the first maxRequests checks are allowed and count down, the later ones
\* are denied.
WindowResult(n, resetAt) ==
  [ allowed |-> n <= maxRequests,
    remaining |-> IF n <= maxRequests THEN maxRequests - n ELSE 0,
    resetAt |-> resetAt ]

\* C35: the result of every check equals the result of the fixed-window
\* algorithm run without cleanup on the identifier's checks alone (the
\* history hWin: a check opens a window of windowMs when the identifier has
\* none or its window is over, and is otherwise the next check of the
\* window), whether or not the cleanup ran on this or on earlier calls.
ResultsRefineFixedWindow ==
  \A s \in Slots :
    LET L == slots[s]
        id == rateLimitKey(L.req)
    IN  Checked(L) =>
          /\ hWin[id].open
          /\ L.rlN = hWin[id].n
          /\ L.rateLimit = WindowResult(L.rlN, hWin[id].resetAt)

\* C35 witness: the second check of a window that was opened after the
\* first one had ended, made after the cleanup had deleted the entry of the
\* other identifier.
SecondWindowAfterCleanup ==
  \E s \in Slots, b \in Identifiers :
    /\ Checked(slots[s])
    /\ b # rateLimitKey(slots[s].req)
    /\ slots[s].rlN = 2
    /\ slots[s].rateLimit.resetAt > windowMs
    /\ hWin[b].open
    /\ ~rateLimitStore[b].has

\* The calls of checkRateLimit(id) that were allowed at a time in [a, b].
AdmittedWithin(id, a, b) ==
  { i \in DOMAIN checkLog[id] :
      /\ checkLog[id][i].result.allowed
      /\ a <= checkLog[id][i].t
      /\ checkLog[id][i].t <= b }

\* All calls of checkRateLimit(id) at a time in [a, b].
CalledWithin(id, a, b) ==
  { i \in DOMAIN checkLog[id] : a <= checkLog[id][i].t /\ checkLog[id][i].t <= b }

\* Every check reports the resetAt of its window, which is the time of the
\* window's first check + windowMs: a check made by the resetAt an earlier
\* check reported reports the same one.
ResetAtFixedInWindow ==
  \A id \in Identifiers : \A j \in DOMAIN checkLog[id] :
    LET c == checkLog[id][j]
    IN  /\ \E i \in 1 .. j :
             /\ checkLog[id][i].t + windowMs = c.result.resetAt
             /\ checkLog[id][i].result.allowed
        /\ c.t <= c.result.resetAt
        /\ \A i \in 1 .. j :
             c.t <= checkLog[id][i].result.resetAt =>
               c.result.resetAt = checkLog[id][i].result.resetAt

\* The times at which an interval may start.
LogTimes == { k * TickMs : k \in 0 .. MaxTicks }

\* C36 (amended): the window is fixed: every check of a window reports the
\* same resetAt, the time of the window's first check + windowMs; and in
\* every interval of length windowMs, wherever it starts, at most
\* 2 * maxRequests - 1 checks of one identifier are allowed.
FixedWindowAdmitsBelowTwice ==
  /\ ResetAtFixedInWindow
  /\ \A id \in Identifiers, a \in LogTimes :
       Cardinality(AdmittedWithin(id, a, a + windowMs)) <= 2 * maxRequests - 1

\* C36 witness: a burst straddling a window boundary, maxRequests checks at
\* the resetAt of a window and maxRequests checks windowMs later, of which
\* 2 * maxRequests - 1 were allowed.
StraddlingBurstAdmitted ==
  \E id \in Identifiers, a \in LogTimes :
    /\ \E i \in DOMAIN checkLog[id] :
         checkLog[id][i].t = a /\ checkLog[id][i].result.resetAt = a
    /\ Cardinality(CalledWithin(id, a, a)) >= maxRequests
    /\ Cardinality(CalledWithin(id, a + windowMs, a + windowMs)) >= maxRequests
    /\ Cardinality(AdmittedWithin(id, a, a + windowMs)) = 2 * maxRequests - 1

\* C36 (as stated): the window is fixed, at most 2 * maxRequests checks of
\* one identifier are allowed in an interval of length windowMs, and a
\* burst straddling a window boundary reaches that bound: of maxRequests
\* checks at the end of a window and maxRequests checks after it, all within
\* windowMs, every one is allowed.
FixedWindowAdmitsTwice ==
  /\ ResetAtFixedInWindow
  /\ \A id \in Identifiers, a \in LogTimes :
       /\ Cardinality(AdmittedWithin(id, a, a + windowMs)) <= 2 * maxRequests
       /\ ( /\ \E i \in DOMAIN checkLog[id] :
                 checkLog[id][i].t = a /\ checkLog[id][i].result.resetAt = a
            /\ Cardinality(CalledWithin(id, a, a)) = maxRequests
            /\ Cardinality(CalledWithin(id, a + windowMs, a + windowMs)) = maxRequests )
          => Cardinality(AdmittedWithin(id, a, a + windowMs)) = 2 * maxRequests

\* The request resolved to a configured app and API and passed the origin
\* check of the app.
Validated(L) ==
  /\ Routed(L)
  /\ isAllowed(APP_CONFIG[L.req.path[1]], L.req.origin, L.req.referer)

\* The entry of an identifier is in its window.
Live(id) == rateLimitStore[id].has /\ now <= rateLimitStore[id].resetAt

Min(a, b) == IF a <= b THEN a ELSE b

RetryAfterOf(c) ==
  TooManyRequests(BaseGet, c.result, c.t).headers["Retry-After"][1]

\* C38 (as stated): the Retry-After r of a 429 is not negative, and a check
\* of the same identifier made r * 1000 ms or more after the denied one is
\* allowed.
RetryAfterSuffices ==
  \A id \in Identifiers : \A i \in DOMAIN checkLog[id] :
    LET c == checkLog[id][i]
    IN  ~c.result.allowed =>
          /\ RetryAfterOf(c) >= 0
          /\ \A j \in DOMAIN checkLog[id] :
               (j > i /\ checkLog[id][j].t >= c.t + RetryAfterOf(c) * 1000) =>
                 checkLog[id][j].result.allowed

(***************************************************************************)
(* C39: a cached response is served only to a request whose whole inbound  *)
(* URL, the app, the API and every query parameter, forwarded upstream or  *)
(* not, is the URL the entry is stored under; an entry is stored per URL,  *)
(* so that requests differing in any parameter never share one.            *)
(***************************************************************************)
CacheServesSameUrlOnly ==
  /\ \A s \in Slots :
       slots[s].hit.found =>
         /\ slots[s].req.method = "GET"
         /\ slots[s].hit.key.path = slots[s].req.path
         /\ slots[s].hit.key.query = slots[s].req.query
  /\ \A c1, c2 \in cache : c1.key = c2.key => c1 = c2
  /\ \A p \in pendingPuts :
       \E req \in CacheRequests : p.key.path = req.path /\ p.key.query = req.query

\* C39 witness: a request is served from the cache while the cache also
\* holds an entry for the same API and the same forwarded parameter whose
\* URL differs in the other parameters.
HitBesideOtherUrl ==
  \E s \in Slots :
    /\ slots[s].hit.found
    /\ \E c \in cache :
         /\ c.key.path = slots[s].req.path
         /\ c.key.query.q = slots[s].req.query.q
         /\ c.key.query # slots[s].req.query
====
